---- MODULE Spec2Model ----
(***************************************************************************)
(* A model of xirvik-tools:                                                *)
(*   - xirvik/util.py: _chunks, _get_torrent_pieces (the piece streamer)   *)
(*     and verify_torrent_contents (the torrent verifier);                 *)
(*   - xirvik/sftp.py: SFTPClient.mirror (the resumable mirror).           *)
(* The verifier runs under SpecVerify, the mirror under SpecMirror.        *)
(***************************************************************************)
EXTENDS Integers, Sequences, FiniteSets, TLC

\* ---------------------------------------------------------------- bounds
MaxFiles == 2
MaxFileSize == 3
MaxPieceLength == 3
MaxWindows == 2
MaxFaults == 1
MaxRuns == 2
MaxStreamFiles == 3
MaxTorrents == 2
MaxLimit == 2

\* ------------------------------------------------------- generic helpers
Min(a, b) == IF a < b THEN a ELSE b

Max(a, b) == IF a < b THEN b ELSE a

RECURSIVE SumSeq(_)
SumSeq(s) == IF s = <<>> THEN 0 ELSE Head(s) + SumSeq(Tail(s))

RECURSIVE Flatten(_)
Flatten(ss) == IF ss = <<>> THEN <<>> ELSE Head(ss) \o Flatten(Tail(ss))

\* Python's l[a:b] for 0 <= a (0-based, b exclusive, clipped to the length).
Slice(l, a, b) == SubSeq(l, a + 1, Min(b, Len(l)))

\* s without the key k (Python's del d[k]).
DelKey(d, k) == [x \in (DOMAIN d) \ {k} |-> d[x]]

\* ------------------------------------------------------------ os.path
\* A path is a record: abs (does it start with '/'), segs (its segments).
Rel(segs) == [abs |-> FALSE, segs |-> segs]

Abs(segs) == [abs |-> TRUE, segs |-> segs]

\* os.path.join(a, b): an absolute b discards a.
path_join(a, b) == IF b.abs THEN b ELSE [abs |-> a.abs, segs |-> a.segs \o b.segs]

\* The working directory of the process, against which the kernel resolves
\* relative paths.
Cwd == <<"home">>

Resolve(p) == IF p.abs THEN p.segs ELSE Cwd \o p.segs

\* ------------------------------------------------------------ the disk
\* disk maps the absolute paths that exist to nodes.
FileNode(data) == [kind |-> "file", data |-> data, dsize |-> 0]

DirNode == [kind |-> "dir", data |-> <<>>, dsize |-> 4096]

Exists(d, p) == Resolve(p) \in DOMAIN d

isdir(d, p) == Exists(d, p) /\ d[Resolve(p)].kind = "dir"

\* open(p, 'rb') succeeds: p is an existing regular file.
CanOpen(d, p) == Exists(d, p) /\ d[Resolve(p)].kind = "file"

\* os.stat(p).st_size of an existing node.
StatSize(d, p) ==
    LET nd == d[Resolve(p)] IN IF nd.kind = "file" THEN Len(nd.data) ELSE nd.dsize

ReadAll(d, p) == d[Resolve(p)].data

\* ------------------------------------------------------------ hashing
\* hashlib.sha1().digest_size
DigestSize == 20

\* sha1(piece).digest(): 20 values; collision-free, so the first value
\* stands for the whole piece and the other 19 are filler.
Sha1(piece) == <<piece>> \o [i \in 1..(DigestSize - 1) |-> 0]

\* _chunks(l, n): l[i:i + n] for i in range(0, len(l), n).
_chunks(l, n) ==
    [k \in 1..((Len(l) + n - 1) \div n) |-> Slice(l, (k - 1) * n, (k - 1) * n + n)]

\* ------------------------------------------- util.py: _get_torrent_pieces
\* The generator's frame: pc is the point where it is suspended or running,
\* fi the number of names taken from filenames, name the joined path of the
\* current file, size the local 'size' (-1 while unbound), pos the read
\* position in the open file.
\* GenInit with one byte less wanted for the first piece.
GenInitShort(piece_length) ==
    [pc |-> "next", fi |-> 0, name |-> Rel(<<>>), buf |-> <<>>,
     p_delta |-> piece_length - 1, size |-> -1, pos |-> 0]

GenInit(piece_length) ==
    [pc |-> "next", fi |-> 0, name |-> Rel(<<>>), buf |-> <<>>,
     p_delta |-> piece_length, size |-> -1, pos |-> 0]

Out(kind, val) == [kind |-> kind, val |-> val]

Cont == Out("cont", <<>>)

\* f.read(n) as f.read(): everything that is left.
FileReadWhole(data, pos, n) == Slice(data, pos, Len(data))

\* f.read(n) at position pos: n bytes or what is left; everything for n < 0.
FileRead(data, pos, n) ==
    IF n < 0 THEN Slice(data, pos, Len(data)) ELSE Slice(data, pos, pos + n)

\* GenBranch with line 54 as 'if size <= piece_length'.
GenBranchNoDeltaTest(d, piece_length, g) ==
    IF g.size <= piece_length
    THEN IF ~CanOpen(d, g.name)
         THEN [g |-> [g EXCEPT !.pc = "raised"], out |-> Out("raise", "IOError")]
         ELSE LET tmp == ReadAll(d, g.name)
                  pd == g.p_delta - Len(tmp)
              IN  [g |-> [g EXCEPT !.pc = "next",
                                   !.p_delta = IF pd <= 0 THEN piece_length ELSE pd,
                                   !.buf = g.buf \o tmp],
                   out |-> Cont]
    ELSE IF ~CanOpen(d, g.name)
         THEN [g |-> [g EXCEPT !.pc = "resumed_io"], out |-> Out("none", <<>>)]
         ELSE [g |-> [g EXCEPT !.pc = "read", !.pos = 0], out |-> Cont]

\* Line 54: the branch taken once 'size' is known.
GenBranch(d, piece_length, g) ==
    IF g.size <= piece_length /\ g.p_delta > g.size
    THEN \* lines 55-64: the whole file goes into the buffer
         IF ~CanOpen(d, g.name)
         THEN [g |-> [g EXCEPT !.pc = "raised"], out |-> Out("raise", "IOError")]
         ELSE LET tmp == ReadAll(d, g.name)
                  pd == g.p_delta - Len(tmp)
              IN  [g |-> [g EXCEPT !.pc = "next",
                                   !.p_delta = IF pd <= 0 THEN piece_length ELSE pd,
                                   !.buf = g.buf \o tmp],
                   out |-> Cont]
    ELSE \* lines 66-67 and 84-85
         IF ~CanOpen(d, g.name)
         THEN [g |-> [g EXCEPT !.pc = "resumed_io"], out |-> Out("none", <<>>)]
         ELSE [g |-> [g EXCEPT !.pc = "read", !.pos = 0], out |-> Cont]

\* One step of the generator: from its current point to the next point, with
\* what it hands to its consumer there ("cont": nothing yet).
GenAdvance(d, filenames, basepath, piece_length, g) ==
    CASE g.pc = "next" ->
           \* line 47: the next name, lines 48-52: its size
           IF g.fi = Len(filenames)
           THEN [g |-> [g EXCEPT !.pc = "tail"], out |-> Cont]
           ELSE LET e == filenames[g.fi + 1] IN
                IF ~e.haspath
                THEN [g |-> [g EXCEPT !.pc = "raised"], out |-> Out("raise", "KeyError")]
                ELSE LET nm == path_join(basepath, e.p)
                         g1 == [g EXCEPT !.fi = g.fi + 1, !.name = nm]
                     IN  IF ~Exists(d, nm)
                         THEN [g |-> [g1 EXCEPT !.pc = "resumed_stat"],
                               out |-> Out("none", <<>>)]
                         ELSE GenBranch(d, piece_length,
                                        [g1 EXCEPT !.size = StatSize(d, nm)])
      [] g.pc = "resumed_stat" ->
           \* resumed after line 52: 'size' is stale, or unbound for the first file
           IF g.size = -1
           THEN [g |-> [g EXCEPT !.pc = "raised"],
                 out |-> Out("raise", "UnboundLocalError")]
           ELSE GenBranch(d, piece_length, g)
      [] g.pc = "read" ->
           \* lines 69-83: one turn of the while loop
           LET tmp == FileRead(ReadAll(d, g.name), g.pos, g.p_delta)
               pd == g.p_delta - Len(tmp)
               g1 == [g EXCEPT !.p_delta = pd]
               g2 == [g1 EXCEPT !.buf = g.buf \o tmp, !.pos = g.pos + Len(tmp)]
           IN  IF tmp = <<>>
               THEN [g |-> [g1 EXCEPT !.pc = "next"], out |-> Cont]
               ELSE IF Len(tmp) < pd
               THEN [g |-> [g2 EXCEPT !.pc = "next"], out |-> Cont]
               ELSE IF pd <= 0
               THEN [g |-> [g2 EXCEPT !.pc = "resumed_piece"],
                     out |-> Out("piece", g2.buf)]
               ELSE [g |-> g2, out |-> Cont]
      [] g.pc = "resumed_piece" ->
           \* lines 82-83
           [g |-> [g EXCEPT !.pc = "read", !.buf = <<>>, !.p_delta = piece_length],
            out |-> Cont]
      [] g.pc = "resumed_io" ->
           \* resumed after line 85: on to the next name
           [g |-> [g EXCEPT !.pc = "next"], out |-> Cont]
      [] g.pc = "tail" ->
           \* lines 90-91
           IF g.buf # <<>>
           THEN [g |-> [g EXCEPT !.pc = "resumed_tail"], out |-> Out("piece", g.buf)]
           ELSE [g |-> [g EXCEPT !.pc = "end"], out |-> Out("stop", <<>>)]
      [] OTHER ->
           \* resumed_tail, end, raised: the generator is exhausted
           [g |-> [g EXCEPT !.pc = "end"], out |-> Out("stop", <<>>)]

\* next(generator): run until something is handed to the consumer.
RECURSIVE GenResume(_, _, _, _, _)
GenResume(d, filenames, basepath, piece_length, g) ==
    LET r == GenAdvance(d, filenames, basepath, piece_length, g)
    IN  IF r.out.kind = "cont"
        THEN GenResume(d, filenames, basepath, piece_length, r.g)
        ELSE r

\* Everything the generator hands out when it is resumed until it stops or
\* raises (what list() would collect, None and the exception included).
RECURSIVE GenDrain(_, _, _, _, _)
GenDrain(d, filenames, basepath, piece_length, g) ==
    LET r == GenResume(d, filenames, basepath, piece_length, g)
    IN  IF r.out.kind = "stop" THEN <<>>
        ELSE IF r.out.kind = "raise" THEN <<r.out>>
        ELSE <<r.out>> \o GenDrain(d, filenames, basepath, piece_length, r.g)

\* ------------------------------------------------- the verifier's state
VARIABLES
    vdisk,        \* the local disk seen by verify_torrent_contents
    torrent,      \* the decoded metadata (what bdecode returns)
    orig,         \* how the torrent was generated: single, sizes, piece_length, data
    vmod,         \* what was done to the disk or the metadata after generation
    vpc,          \* "idle", "loop" (lines 144-157), "done"
    vroot,        \* the path argument of the call
    voutcome,     \* "none" while running, then "ok" or the exception raised
    piece_hashes, \* line 129
    filenames,    \* lines 132-139
    basepath,     \* the path handed to _get_torrent_pieces
    gen,          \* the frame of the _get_torrent_pieces generator
    nhashes,      \* known hashes taken by zip
    npieces       \* pieces hashed and compared

vvars == <<vdisk, torrent, orig, vmod, vpc, vroot, voutcome, piece_hashes,
           filenames, basepath, gen, nhashes, npieces>>

\* ---------------------------------------------------- the mirror's state
VARIABLES
    listing,      \* what listdir_attr_recurse yields: dir, name, st_size
    lfile,        \* per listed file, its local destination: kind, segs
    lfile0,       \* lfile as it was before the run
    ldirs,        \* the local directories that exist (as dest_path)
    dircache,     \* SFTPClient._dircache, the list of the class (line 39)
    instance_dircache,  \* per client: its own _dircache, once line 103 bound one
    self,         \* the client on which mirror is, or was last, called
    mpc,          \* "idle", "for" (line 171), "while" (line 199), "post" (264),
                  \* "returned", "raised"
    resume,       \* the resume argument
    idx,          \* the listed entry being handled
    n,            \* the local n of mirror
    resume_seek,  \* the local resume_seek: none, or v
    result,       \* the value returned, or the exception raised
    ops,          \* the remote operations issued, in order
    transferred,  \* the entries whose transfer completed in this run
    faults,       \* transport faults so far
    mkdirs,       \* the dest_path of every makedirs call of this run, in order
    runs,         \* the calls of mirror on this client so far
    metafailed    \* the entries whose chmod or utime failed in this run

mvars == <<listing, lfile, lfile0, ldirs, dircache, instance_dircache, self, mpc, resume,
           idx, n, resume_seek, result, ops, transferred, faults, mkdirs, runs, metafailed>>

\* ------------------------------- the piece streamer run on its own
VARIABLES
    sscen,        \* the files handed to _get_torrent_pieces: sizes, kinds, piece_length
    sgen,         \* the frame of the generator
    syield        \* what it has handed to its consumer so far, in order

svars == <<sscen, sgen, syield>>

\* --------------------------------------- the mirror command (mirror.py)
VARIABLES
    cpc,          \* where main is: "start" (line 44), "args" (46-93), "acquire"
                  \* (96-97), "list" (121), "sftp" (146-168), "verify" (182-194),
                  \* "move" (199-206), "label" (210-212), "release" (217),
                  \* "exit" (218), "exited"
    _lock,        \* the module's _lock (line 30)
    main_lock,    \* the _lock of main (line 96), a local of the function
    lockheld,     \* the lock file is held by the process
    debug,        \* args.debug
    cnames,       \* names: the hashes of the torrents found
    cbad,         \* bad
    cidx,         \* how many of names the running loop has handled
    moved,        \* the hashes given to move_torrent without an error
    labelled,     \* the hashes given to set_label_to_hashes
    exit_status,  \* exit_status
    ended,        \* how the process ended: an exit status or an exception
    sigat,        \* where main was when SIGINT arrived, "none" before
    releases,     \* the calls of _lock.release() so far
    move_requests \* the hashes for which move_torrent was called

kvars == <<cpc, _lock, main_lock, lockheld, debug, cnames, cbad, cidx, moved, labelled,
           exit_status, ended, sigat, releases, move_requests>>

\* ------------------------------------ the recursive listing run on its own
VARIABLES
    rtree,            \* the remote tree: what is at each path under the start path
    raise_exceptions, \* the flag of line 67
    lpc,              \* "idle", "iter" (the generator is being consumed), "done",
                      \* "raised"
    lyielded          \* the paths handed to the consumer so far, in order

lvars == <<rtree, raise_exceptions, lpc, lyielded>>

\* -------------------------- set_label_to_hashes (client.py) run on its own
VARIABLES
    tpc,                 \* where the call is: "idle" (not called), "check" (line
                         \* 368), "post" (372-386), "list" (402-414), "returned",
                         \* "raised"
    kwargs,              \* the keyword arguments the caller passed
    label_hashes,        \* hashes of the running call (line 362)
    label,               \* label (line 363)
    allow_recursive_fix, \* line 364
    recursion_limit,     \* line 365
    recursion_attempt,   \* line 366
    listed,              \* what list_torrents() returned last (line 405)
    label_requests,      \* the setlabel requests posted so far, in order
    texc                 \* the exception the call raised, "none" before

tvars == <<tpc, kwargs, label_hashes, label, allow_recursive_fix, recursion_limit,
           recursion_attempt, listed, label_requests, texc>>

vars == <<vvars, mvars, svars, kvars, lvars, tvars>>

\* ----------------------------------- test_util.py: the torrent generator
FileNames == <<"f1", "f2", "f3", "f4">>

TorrentName == "t"

\* Where the caller keeps its downloads, as an absolute and a relative path,
\* and a path that does not exist (test_util.py:117).
RootAbs == Abs(Cwd \o <<"dl">>)

RootRel == Rel(<<"dl">>)

RootJunk == Abs(Cwd \o <<"dljunk">>)

Patterns == {"distinct", "zeros"}

\* create_random_data: every byte different, or every byte the same.
AllData(total, pat) == [k \in 1..total |-> IF pat = "distinct" THEN k ELSE 0]

RECURSIVE Offsets(_, _)
\* Offsets(sizes, i): the offset in the concatenation of the first byte of file i.
Offsets(sizes, i) == IF i <= 1 THEN 0 ELSE Offsets(sizes, i - 1) + sizes[i - 1]

\* test_util.py:71-74 and 166-169: one digest per piece_length bytes of all_data.
MakePieces(data, pl) ==
    LET cs == _chunks(data, pl) IN Flatten([k \in 1..Len(cs) |-> Sha1(cs[k])])

\* The absolute path of file i of the torrent on disk.
DataPath(single, i) ==
    IF single THEN Cwd \o <<"dl", TorrentName>>
    ELSE Cwd \o <<"dl", TorrentName, FileNames[i]>>

MakeDisk(single, sizes, data) ==
    LET files == [p \in {DataPath(single, i) : i \in 1..Len(sizes)} |->
                    LET i == CHOOSE j \in 1..Len(sizes) : DataPath(single, j) = p
                    IN  FileNode(Slice(data, Offsets(sizes, i), Offsets(sizes, i) + sizes[i]))]
        dirs == [p \in {Cwd, Cwd \o <<"dl">>} \cup
                       (IF single THEN {} ELSE {Cwd \o <<"dl", TorrentName>>}) |-> DirNode]
    IN  files @@ dirs

MakeInfo(single, sizes, pl, data) ==
    LET base == ("name" :> TorrentName) @@ ("piece length" :> pl) @@
                ("pieces" :> MakePieces(data, pl))
    IN  IF single THEN base
        ELSE base @@ ("files" :> [i \in 1..Len(sizes) |->
                                    [length |-> sizes[i], path |-> <<FileNames[i]>>]])

MakeTorrent(single, sizes, pl, data) ==
    ("announce" :> "https://fake.com") @@ ("info" :> MakeInfo(single, sizes, pl, data))

NoMod == [kind |-> "none", a |-> 0, b |-> 0]

\* The state before the call, for a torrent generated from these choices.
VerifySetup(single, sizes, pl, pat) ==
    LET data == AllData(SumSeq(sizes), pat) IN
    /\ orig = [single |-> single, sizes |-> sizes, piece_length |-> pl, data |-> data]
    /\ vdisk = MakeDisk(single, sizes, data)
    /\ torrent = MakeTorrent(single, sizes, pl, data)
    /\ vmod = NoMod
    /\ vpc = "idle"
    /\ vroot = RootAbs
    /\ voutcome = "none"
    /\ piece_hashes = <<>>
    /\ filenames = <<>>
    /\ basepath = RootAbs
    /\ gen = GenInit(pl)
    /\ nhashes = 0
    /\ npieces = 0

VerifyInit ==
    \E single \in BOOLEAN, nf \in 1..MaxFiles, pl \in 1..MaxPieceLength, pat \in Patterns :
      \E sizes \in [1..nf -> 0..MaxFileSize] :
        /\ single => nf = 1
        /\ VerifySetup(single, sizes, pl, pat)

\* ------------------------------ what happens to the data after generation
\* These follow the tests: a byte is overwritten (test_util.py:142-143), a
\* file is removed (120), a key is deleted from the metadata (126, 134); and
\* a file is cut short or grows.
OtherByte(b) == IF b = 0 THEN 1 ELSE 0

NFiles == Len(orig.sizes)

CorruptByte(i, j) ==
    /\ vpc = "idle" /\ vmod = NoMod
    /\ j \in 1..orig.sizes[i]
    /\ LET p == DataPath(orig.single, i) IN
         vdisk' = [vdisk EXCEPT ![p].data[j] = OtherByte(@)]
    /\ vmod' = [kind |-> "corrupt", a |-> Offsets(orig.sizes, i) + j - 1, b |-> i]
    /\ UNCHANGED <<torrent, orig, vpc, vroot, voutcome, piece_hashes, filenames,
                   basepath, gen, nhashes, npieces, mvars, svars, kvars, lvars, tvars>>

DeleteFile(i) ==
    /\ vpc = "idle" /\ vmod = NoMod
    /\ LET p == DataPath(orig.single, i) IN
         vdisk' = [q \in (DOMAIN vdisk) \ {p} |-> vdisk[q]]
    /\ vmod' = [kind |-> "delete", a |-> i, b |-> 0]
    /\ UNCHANGED <<torrent, orig, vpc, vroot, voutcome, piece_hashes, filenames,
                   basepath, gen, nhashes, npieces, mvars, svars, kvars, lvars, tvars>>

TruncateFile(i, len) ==
    /\ vpc = "idle" /\ vmod = NoMod
    /\ len \in 0..(orig.sizes[i] - 1)
    /\ LET p == DataPath(orig.single, i) IN
         vdisk' = [vdisk EXCEPT ![p].data = SubSeq(@, 1, len)]
    /\ vmod' = [kind |-> "truncate", a |-> i, b |-> len]
    /\ UNCHANGED <<torrent, orig, vpc, vroot, voutcome, piece_hashes, filenames,
                   basepath, gen, nhashes, npieces, mvars, svars, kvars, lvars, tvars>>

AppendBytes(i, k) ==
    /\ vpc = "idle" /\ vmod = NoMod
    /\ LET p == DataPath(orig.single, i) IN
         vdisk' = [vdisk EXCEPT ![p].data = @ \o [x \in 1..k |-> 0]]
    /\ vmod' = [kind |-> "append", a |-> i, b |-> k]
    /\ UNCHANGED <<torrent, orig, vpc, vroot, voutcome, piece_hashes, filenames,
                   basepath, gen, nhashes, npieces, mvars, svars, kvars, lvars, tvars>>

\* The keys verify_torrent_contents needs; "path" is the path of a file entry.
RequiredKeys == <<"info", "name", "piece length", "pieces", "path">>

DeleteKey(k, i) ==
    /\ vpc = "idle" /\ vmod = NoMod
    /\ k = 5 => ~orig.single
    /\ k # 5 => i = 1
    /\ torrent' =
         IF k = 1 THEN DelKey(torrent, "info")
         ELSE IF k \in 2..4
         THEN [torrent EXCEPT !["info"] = DelKey(@, RequiredKeys[k])]
         ELSE [torrent EXCEPT !["info"]["files"][i] = DelKey(@, "path")]
    /\ vmod' = [kind |-> "delkey", a |-> k, b |-> i]
    /\ UNCHANGED <<vdisk, orig, vpc, vroot, voutcome, piece_hashes, filenames,
                   basepath, gen, nhashes, npieces, mvars, svars, kvars, lvars, tvars>>

\* ------------------------------------- util.py: verify_torrent_contents
\* Lines 132-133: the generator expression over info['files']; an entry
\* without 'path' raises KeyError only when the expression reaches it.
LazyNames(files) ==
    [i \in 1..Len(files) |->
        IF "path" \in DOMAIN files[i]
        THEN [haspath |-> TRUE, p |-> Rel(files[i].path)]
        ELSE [haspath |-> FALSE, p |-> Rel(<<>>)]]

Prologue(exc, hashes, names, base, pl) ==
    [exc |-> exc, piece_hashes |-> hashes, filenames |-> names, basepath |-> base,
     piece_length |-> pl]

Raise(exc) == Prologue(exc, <<>>, <<>>, Rel(<<>>), 1)

\* VerifyPrologue without the test of lines 116-123.
VerifyPrologueNoPathTest(d, t, orig_path) ==
    IF "info" \notin DOMAIN t \/ "name" \notin DOMAIN t["info"]
    THEN Raise("KeyError")
    ELSE LET info == t["info"]
             path == path_join(orig_path, Rel(<<info["name"]>>))
         IN  IF "piece length" \notin DOMAIN info \/ "pieces" \notin DOMAIN info
             THEN Raise("KeyError")
             ELSE LET hashes == _chunks(info["pieces"], DigestSize) IN
                  IF "files" \in DOMAIN info
                  THEN Prologue("none", hashes, LazyNames(info["files"]), path,
                                info["piece length"])
                  ELSE Prologue("none", hashes, <<[haspath |-> TRUE, p |-> path]>>,
                                orig_path, info["piece length"])

\* Lines 101-142: everything before the comparison loop.
VerifyPrologue(d, t, orig_path) ==
    IF "info" \notin DOMAIN t \/ "name" \notin DOMAIN t["info"]
    THEN Raise("KeyError")
    ELSE LET info == t["info"]
             path == path_join(orig_path, Rel(<<info["name"]>>))
             is_a_file == CanOpen(d, path)
         IN  IF ~isdir(d, path) /\ ~is_a_file
             THEN Raise("IOError")
             ELSE IF "piece length" \notin DOMAIN info \/ "pieces" \notin DOMAIN info
             THEN Raise("KeyError")
             ELSE LET hashes == _chunks(info["pieces"], DigestSize) IN
                  IF "files" \in DOMAIN info
                  THEN Prologue("none", hashes, LazyNames(info["files"]), path,
                                info["piece length"])
                  ELSE Prologue("none", hashes, <<[haspath |-> TRUE, p |-> path]>>,
                                orig_path, info["piece length"])

\* The call, with the path the caller gives: lines 101-142.
VerifyStart(root) ==
    /\ vpc = "idle"
    /\ LET r == VerifyPrologue(vdisk, torrent, root) IN
         /\ vroot' = root
         /\ vpc' = IF r.exc = "none" THEN "loop" ELSE "done"
         /\ voutcome' = r.exc
         /\ piece_hashes' = r.piece_hashes
         /\ filenames' = r.filenames
         /\ basepath' = r.basepath
         /\ gen' = GenInit(r.piece_length)
    /\ UNCHANGED <<vdisk, torrent, orig, vmod, nhashes, npieces, mvars, svars, kvars, lvars, tvars>>

PieceLength == torrent["info"]["piece length"]

\* Line 155: hmac.compare_digest.
compare_digest(a, b) == a = b

\* The loop's frame: where it is, the result so far, the generator's frame,
\* the known hashes taken by zip, the pieces hashed and compared.
Frame(pc, outcome, g, nh, np) ==
    [pc |-> pc, outcome |-> outcome, gen |-> g, nhashes |-> nh, npieces |-> np]

\* One turn of the loop of lines 144-157: zip takes the next known hash, then
\* the next piece; the piece is hashed and compared. zip ends, and the
\* function returns, with the shorter of its two inputs.
ZipStep(d, hashes, names, base, pl, st) ==
    IF st.nhashes = Len(hashes)
    THEN [st EXCEPT !.pc = "done", !.outcome = "ok"]
    ELSE LET known_hash == hashes[st.nhashes + 1]
             r == GenResume(d, names, base, pl, st.gen)
             st1 == [st EXCEPT !.nhashes = st.nhashes + 1, !.gen = r.g]
         IN  CASE r.out.kind = "stop" ->
                    [st1 EXCEPT !.pc = "done", !.outcome = "ok"]
               [] r.out.kind = "raise" ->
                    [st1 EXCEPT !.pc = "done", !.outcome = r.out.val]
               [] r.out.kind = "none" ->
                    \* lines 150-153: sha1(None) is a TypeError
                    [st1 EXCEPT !.pc = "done",
                                !.outcome = "VerificationError: unable to hash"]
               [] OTHER ->
                    IF compare_digest(known_hash, Sha1(r.out.val))
                    THEN [st1 EXCEPT !.npieces = st.npieces + 1]
                    ELSE [st1 EXCEPT !.npieces = st.npieces + 1, !.pc = "done",
                                     !.outcome = "VerificationError: hash mismatch"]

VerifyTurn ==
    LET st == ZipStep(vdisk, piece_hashes, filenames, basepath, PieceLength,
                      Frame(vpc, voutcome, gen, nhashes, npieces))
    IN  /\ vpc' = st.pc
        /\ voutcome' = st.outcome
        /\ gen' = st.gen
        /\ nhashes' = st.nhashes
        /\ npieces' = st.npieces
        /\ UNCHANGED <<vdisk, torrent, orig, vmod, vroot, piece_hashes, filenames,
                       basepath, mvars, svars, kvars, lvars, tvars>>

\* A turn of the loop while known hashes are left.
VerifyPiece == vpc = "loop" /\ nhashes < Len(piece_hashes) /\ VerifyTurn

\* The known hashes are used up: the loop ends and the function returns.
VerifyReturn == vpc = "loop" /\ nhashes = Len(piece_hashes) /\ VerifyTurn

\* The whole call as a function of its inputs: the result of
\* verify_torrent_contents(t, root) on disk d.
RECURSIVE VerifyLoop(_, _, _, _, _, _)
VerifyLoop(d, hashes, names, base, pl, st) ==
    IF st.pc = "done" THEN st
    ELSE VerifyLoop(d, hashes, names, base, pl, ZipStep(d, hashes, names, base, pl, st))

VerifyRun(d, t, root) ==
    LET r == VerifyPrologue(d, t, root) IN
    IF r.exc # "none" THEN r.exc
    ELSE VerifyLoop(d, r.piece_hashes, r.filenames, r.basepath, r.piece_length,
                    Frame("loop", "none", GenInit(r.piece_length), 0, 0)).outcome

VerifyNext ==
    \/ \E i \in 1..NFiles, j \in 1..MaxFileSize : CorruptByte(i, j)
    \/ \E i \in 1..NFiles : DeleteFile(i)
    \/ \E i \in 1..NFiles, len \in 0..MaxFileSize : TruncateFile(i, len)
    \/ \E i \in 1..NFiles, k \in 1..MaxPieceLength : AppendBytes(i, k)
    \/ \E k \in 1..Len(RequiredKeys), i \in 1..NFiles : DeleteKey(k, i)
    \/ \E root \in {RootAbs, RootRel, RootJunk} : VerifyStart(root)
    \/ VerifyPiece
    \/ VerifyReturn


\* ------------------------------------------------ claims on the verifier
Done == vpc = "done"

Mismatch == "VerificationError: hash mismatch"

Unable == "VerificationError: unable to hash"

\* The caller names the directory that holds the torrent's data.
RootOnData == vroot \in {RootAbs, RootRel}

\* C1: verify_torrent_contents on the unmodified files of a generated torrent
\* (multi-file or single-file, any file sizes and piece length) returns
\* normally.
C1_UnmodifiedVerifies ==
    (Done /\ vmod = NoMod /\ RootOnData) => voutcome = "ok"

\* The part of C1 that the code keeps: multi-file torrents, and single-file
\* torrents when the caller's path is absolute.
C1_UnmodifiedVerifiesAbsRoot ==
    (Done /\ vmod = NoMod /\ RootOnData /\ (~orig.single \/ vroot.abs))
        => voutcome = "ok"

\* What the piece streamer hands out for the disk as it is.
Produced == GenDrain(vdisk, filenames, basepath, PieceLength, GenInit(PieceLength))

\* The pieces among what the streamer hands out.
ProducedPieces == SelectSeq(Produced, LAMBDA o : o.kind = "piece")

\* C2: verify succeeds only if the pieces produced from disk are as many as
\* the stored digests and every one of them equals its digest.
C2_SuccessNeedsEqualCounts ==
    (Done /\ voutcome = "ok") =>
        /\ Len(ProducedPieces) = Len(piece_hashes)
        /\ \A k \in 1..Len(ProducedPieces) :
              Sha1(ProducedPieces[k].val) = piece_hashes[k]

\* The index of the piece that holds the overwritten byte.
CorruptPiece == vmod.a \div orig.piece_length

\* C3: when the content differs only inside piece i, verify fails with the
\* hash-mismatch error raised at the comparison of piece i: pieces 0..i-1
\* compared equal and nothing after piece i was hashed.
C3_MismatchAtCorruptPiece ==
    (Done /\ vmod.kind = "corrupt" /\ RootOnData) =>
        /\ voutcome = Mismatch
        /\ npieces = CorruptPiece + 1
        /\ nhashes = CorruptPiece + 1

\* The part of C3 that the code keeps (see C1_UnmodifiedVerifiesAbsRoot).
C3_MismatchAtCorruptPieceAbsRoot ==
    (Done /\ vmod.kind = "corrupt" /\ RootOnData /\ (~orig.single \/ vroot.abs)) =>
        /\ voutcome = Mismatch
        /\ npieces = CorruptPiece + 1
        /\ nhashes = CorruptPiece + 1

\* C4: with one file of the metadata deleted, verify never returns success
\* and never reports a hash mismatch.
C4_DeletedFileIsAnError ==
    (Done /\ vmod.kind = "delete" /\ RootOnData) => voutcome \notin {"ok", Mismatch}

\* C5: when rootPath/name is neither a directory nor an openable file, verify
\* fails with IOError and no piece is streamed or hashed.
NamedPath == path_join(vroot, Rel(<<torrent["info"]["name"]>>))

HasName == "info" \in DOMAIN torrent /\ "name" \in DOMAIN torrent["info"]

InvalidPath == HasName /\ ~isdir(vdisk, NamedPath) /\ ~CanOpen(vdisk, NamedPath)

C5_InvalidPathIsIOError ==
    (vpc # "idle" /\ InvalidPath) =>
        /\ Done
        /\ voutcome = "IOError"
        /\ nhashes = 0 /\ npieces = 0
        /\ gen.pc = "next" /\ gen.fi = 0

\* The single file of a single-file torrent was removed (test_util.py:194-197).
C5_Witness ==
    /\ Done /\ InvalidPath /\ voutcome = "IOError"
    /\ orig.single /\ vmod.kind = "delete" /\ vroot = RootAbs

\* C6: with a required key missing from the metadata, verify fails with
\* KeyError whatever the state of the disk and the path given.
C6_MissingKeyIsKeyError ==
    (Done /\ vmod.kind = "delkey") => voutcome = "KeyError"

\* The one-element multi-file torrent with the same pieces, and the disk
\* with the same file below a directory of the torrent's name.
TwinTorrent ==
    [torrent EXCEPT !["info"] =
        @ @@ ("files" :> <<[length |-> orig.sizes[1], path |-> <<FileNames[1]>>]>>)]

TwinDisk ==
    LET f == DataPath(TRUE, 1)
        rest == [q \in (DOMAIN vdisk) \ {f} |-> vdisk[q]]
    IN  IF f \in DOMAIN vdisk
        THEN (DataPath(FALSE, 1) :> vdisk[f]) @@ (f :> DirNode) @@ rest
        ELSE (f :> DirNode) @@ rest

\* C7: a single-file torrent and the equivalent one-element multi-file
\* torrent both succeed or both fail, for the same content and the same
\* path given by the caller.
C7_SingleAsOneElementMulti ==
    (Done /\ orig.single /\ vmod.kind \in {"none", "corrupt", "truncate", "append"})
        => ((voutcome = "ok") <=> (VerifyRun(TwinDisk, TwinTorrent, vroot) = "ok"))

\* The part of C7 that the code keeps: absolute paths.
C7_SingleAsOneElementMultiAbsRoot ==
    (Done /\ orig.single /\ vroot.abs
          /\ vmod.kind \in {"none", "corrupt", "truncate", "append"})
        => ((voutcome = "ok") <=> (VerifyRun(TwinDisk, TwinTorrent, vroot) = "ok"))

\* =================================================== sftp.py: SFTPClient
\* SFTPFile.MAX_REQUEST_SIZE of paramiko.
MAX_PACKET_SIZE == 32768

\* Line 242: the bytes stepped back after a fault.
ResumeBackoff == 10

\* ------------------------------------------------------ bytes of a file
\* The content of a local file is a sequence of segments: src "r" is the
\* range [off, off + len) of the remote file of the same name, src "x" is
\* len bytes that are not the remote file's.
Seg(src, off, len) == [src |-> src, off |-> off, len |-> len]

\* The first k bytes of the remote file.
Prefix(k) == IF k = 0 THEN <<>> ELSE <<Seg("r", 0, k)>>

RECURSIVE SegSize(_)
SegSize(segs) == IF segs = <<>> THEN 0 ELSE Head(segs).len + SegSize(Tail(segs))

\* f.write(chunk) on a file opened 'ab' (O_APPEND): the bytes go to the end
\* of the file, wherever f.seek went.
WriteAppend(segs, c) ==
    IF c.len = 0 THEN segs
    ELSE IF segs # <<>> /\ segs[Len(segs)].src = "r" /\ c.src = "r"
            /\ segs[Len(segs)].off + segs[Len(segs)].len = c.off
    THEN [segs EXCEPT ![Len(segs)].len = @ + c.len]
    ELSE Append(segs, c)

RECURSIVE WriteAll(_, _)
WriteAll(segs, chunks) ==
    IF chunks = <<>> THEN segs
    ELSE WriteAll(WriteAppend(segs, Head(chunks)), Tail(chunks))

\* Lines 223-224: the offset of dest at which each f.write(chunk) stores its
\* bytes, the file holding segs when it is opened.
LandingOffsets(segs, chunks) ==
    [k \in 1..Len(chunks) |-> SegSize(WriteAll(segs, SubSeq(chunks, 1, k - 1)))]

\* rf.readv(read_tuples): for each (offset, size) what read(size) returns at
\* that offset of a remote file of R bytes: nothing at or after the end.
ReadChunk(t, R) ==
    IF t.size <= 0 \/ t.off >= R THEN Seg("r", t.off, 0)
    ELSE Seg("r", t.off, Min(t.size, R - t.off))

readv(read_tuples, R) == [k \in 1..Len(read_tuples) |-> ReadChunk(read_tuples[k], R)]

\* math.ceil(a / b) for b > 0.
ceil_div(a, b) == -((-a) \div b)

\* Lines 204-216: the windows of a resumed transfer, and the value the loop
\* of line 212 leaves in n (n itself when the loop does not run).
ReadPlan(st_size, seek, nn) ==
    LET n_reads == ceil_div(st_size - seek, MAX_PACKET_SIZE) - 1
        n_left == (st_size - seek) % MAX_PACKET_SIZE
        full == IF n_reads > 0
                THEN [k \in 1..n_reads |->
                         [off |-> seek + (k - 1) * MAX_PACKET_SIZE,
                          size |-> MAX_PACKET_SIZE]]
                ELSE <<>>
        offset == IF n_reads > 0 THEN n_reads * MAX_PACKET_SIZE ELSE 0
    IN  [read_tuples |-> full \o <<[off |-> seek + offset, size |-> n_left]>>,
         n |-> IF n_reads > 0 THEN n_reads - 1 ELSE nn]

\* The SFTPClient instances of the process.
Clients == {1, 2}

\* The _dircache attribute of an instance: none of its own (the lookup finds
\* the list of the class), or the list that line 103 bound to the instance.
Unbound == [own |-> FALSE, v |-> <<>>]

Bound(v) == [own |-> TRUE, v |-> v]

\* self._dircache as client c reads it, given the list of the class and the
\* attributes of the instances.
CacheOf(class_list, inst, c) == IF inst[c].own THEN inst[c].v ELSE class_list

None == [none |-> TRUE, v |-> 0]

Some(v) == [none |-> FALSE, v |-> v]

\* Python's truth value of resume_seek.
Truthy(rs) == ~rs.none /\ rs.v # 0

\* The sizes of the remote files and of the local files found at the start.
Sizes == {w * MAX_PACKET_SIZE + b : w \in 0..MaxWindows, b \in {0, 7}}

\* The remote trees mirrored: one file, two files of one directory, two
\* files of two directories.
Listings ==
    {<<[dir |-> "a", name |-> "x"]>>,
     <<[dir |-> "a", name |-> "x"], [dir |-> "a", name |-> "y"]>>,
     <<[dir |-> "a", name |-> "x"], [dir |-> "b", name |-> "z"]>>}

Absent == [kind |-> "absent", segs |-> <<>>]

Present(segs) == [kind |-> "file", segs |-> segs]

LocalDir == [kind |-> "dir", segs |-> <<>>]

\* What may be at the destination before the run: nothing, a directory, a
\* prefix of the remote file (all of it included), foreign bytes of the
\* remote size, or the remote file followed by foreign bytes.
LocalStates(R) ==
    {Absent, LocalDir} \cup {Present(Prefix(k)) : k \in {s \in Sizes : s <= R}}
                       \cup {Present(<<Seg("x", 0, R)>>) : k \in {s \in {R} : s > 0}}
                       \cup {Present(WriteAppend(Prefix(R), Seg("x", 0, 7)))}

NoResult == [kind |-> "none", val |-> 0, exc |-> ""]

Returned(v) == [kind |-> "return", val |-> v, exc |-> ""]

Raised(exc) == [kind |-> "raise", val |-> 0, exc |-> exc]

\* The state before the call: the remote files listed, with their sizes, and
\* what is at their local destinations.
MirrorSetup(ls, rs, lf) ==
    /\ listing = [i \in 1..Len(ls) |->
                    [dir |-> ls[i].dir, name |-> ls[i].name, st_size |-> rs[i]]]
    /\ lfile = lf
    /\ lfile0 = lf
    /\ ldirs = {ls[i].dir : i \in {j \in 1..Len(ls) : lf[j].kind # "absent"}}
    /\ dircache = <<>>
    /\ instance_dircache = [c \in Clients |-> Unbound]
    /\ self = 1
    /\ mpc = "idle"
    /\ resume = TRUE
    /\ idx = 0
    /\ n = 0
    /\ resume_seek = None
    /\ result = NoResult
    /\ ops = <<>>
    /\ transferred = {}
    /\ faults = 0
    /\ mkdirs = <<>>
    /\ runs = 0
    /\ metafailed = {}

MirrorInit ==
    \E ls \in Listings :
      \E rs \in [1..Len(ls) -> Sizes] :
        \E lf \in [1..Len(ls) -> UNION {LocalStates(R) : R \in Sizes}] :
          /\ \A i \in 1..Len(ls) : lf[i] \in LocalStates(rs[i])
          /\ MirrorSetup(ls, rs, lf)

\* ------------------------------------------------ sftp.py: mirror, 150-273
RemoteOp(op, file, tuples) == [op |-> op, file |-> file, tuples |-> tuples]

InSeq(x, q) == \E k \in 1..Len(q) : q[k] = x

\* Lines 167-169: a call of mirror on client c, the first one or one after
\* an earlier call returned. _dircache (line 39) is left as it is; what is
\* recorded about the run starts anew. The client of the first call is
\* numbered 1.
MirrorStart(c, r) ==
    /\ mpc \in {"idle", "returned"}
    /\ runs < MaxRuns
    /\ runs = 0 => c = 1
    /\ self' = c
    /\ runs' = runs + 1
    /\ resume' = r
    /\ n' = 0
    /\ resume_seek' = None
    /\ idx' = 0
    /\ mpc' = "for"
    /\ lfile0' = lfile
    /\ result' = NoResult
    /\ ops' = <<>>
    /\ transferred' = {}
    /\ mkdirs' = <<>>
    /\ metafailed' = {}
    /\ UNCHANGED <<listing, lfile, ldirs, dircache, instance_dircache, faults, vvars, svars,
                   kvars, lvars, tvars>>

\* Between two calls a local directory is removed with the files beneath it.
RemoveDir(dir) ==
    /\ mpc = "returned"
    /\ runs < MaxRuns
    /\ dir \in ldirs
    /\ ldirs' = ldirs \ {dir}
    /\ lfile' = [i \in DOMAIN lfile |-> IF listing[i].dir = dir THEN Absent ELSE lfile[i]]
    /\ mpc' = "idle"
    /\ UNCHANGED <<listing, lfile0, dircache, instance_dircache, self, resume, idx, n,
                   resume_seek, result, ops, transferred, faults, mkdirs, runs, metafailed,
                   vvars, svars, kvars, lvars, tvars>>

\* Lines 101-103: clear_directory_cache on client c, between two calls of
\* mirror: self._dircache = [] binds a new list to the instance.
clear_directory_cache(c) ==
    /\ mpc \in {"idle", "returned"}
    /\ runs < MaxRuns
    /\ instance_dircache[c] # Bound(<<>>)
    /\ instance_dircache' = [instance_dircache EXCEPT ![c] = Bound(<<>>)]
    /\ UNCHANGED <<listing, lfile, lfile0, ldirs, dircache, self, mpc, resume, idx, n,
                   resume_seek, result, ops, transferred, faults, mkdirs, runs, metafailed,
                   vvars, svars, kvars, lvars, tvars>>

\* Lines 178-183: one makedirs per dest_path that is not in the cache.
EnsureDir(cache, dirs, dest_path) ==
    IF InSeq(dest_path, cache)
    THEN [dircache |-> cache, ldirs |-> dirs, made |-> FALSE]
    ELSE [dircache |-> Append(cache, dest_path), ldirs |-> dirs \cup {dest_path},
          made |-> TRUE]

\* Sizing with the test of line 192 always true: equal sizes are transferred.
SizingNoSkip(local, st_size, rs) ==
    IF local.kind = "dir" THEN [to |-> "skip", resume_seek |-> rs]
    ELSE IF local.kind = "absent" THEN [to |-> "while", resume_seek |-> rs]
    ELSE [to |-> "while", resume_seek |-> Some(SegSize(local.segs))]

\* Lines 185-198: what is done with the entry, by what is at dest: "skip"
\* (a directory: continue), "post" (same size: nothing to transfer) or
\* "while" (the transfer loop), and the resume_seek that results.
Sizing(local, st_size, rs) ==
    IF local.kind = "dir" THEN [to |-> "skip", resume_seek |-> rs]
    ELSE IF local.kind = "absent" THEN [to |-> "while", resume_seek |-> rs]
    ELSE LET current_size == SegSize(local.segs) IN
         IF current_size # st_size
         THEN [to |-> "while", resume_seek |-> Some(current_size)]
         ELSE [to |-> "post", resume_seek |-> rs]

\* Lines 171-198: the next listed entry. (Line 172 never holds for what
\* listdir_attr_recurse yields.)
ForEntry ==
    /\ mpc = "for"
    /\ idx < Len(listing)
    /\ LET e == listing[idx + 1]
           d == EnsureDir(CacheOf(dircache, instance_dircache, self), ldirs, e.dir)
           z == Sizing(lfile[idx + 1], e.st_size, resume_seek)
       IN  /\ IF instance_dircache[self].own
              THEN /\ instance_dircache' =
                          [instance_dircache EXCEPT ![self] = Bound(d.dircache)]
                   /\ UNCHANGED dircache
              ELSE /\ dircache' = d.dircache
                   /\ UNCHANGED instance_dircache
           /\ ldirs' = d.ldirs
           /\ mkdirs' = IF d.made THEN Append(mkdirs, e.dir) ELSE mkdirs
           /\ resume_seek' = z.resume_seek
           /\ mpc' = IF z.to = "skip" THEN "for" ELSE z.to
    /\ idx' = idx + 1
    /\ UNCHANGED <<listing, lfile, lfile0, self, resume, n, result, ops, transferred,
                   faults, runs, metafailed, vvars, svars, kvars, lvars, tvars>>

\* Line 203: a ranged transfer, or client.get of the whole file.
Ranged(rs, r) == Truthy(rs) /\ r

\* Attempt without line 221: resume_seek keeps its value after a ranged
\* transfer.
AttemptNoReset(local, nn, rs, r, R, dirok) ==
    IF Truthy(rs) /\ r
    THEN LET plan == ReadPlan(R, rs.v, nn) IN
         IF ~dirok
         THEN [local |-> local, n |-> plan.n, resume_seek |-> rs, exc |-> "IOError",
               op |-> "readv", tuples |-> plan.read_tuples]
         ELSE IF rs.v < 0
         THEN [local |-> Present(local.segs), n |-> plan.n, resume_seek |-> rs,
               exc |-> "OSError", op |-> "readv", tuples |-> plan.read_tuples]
         ELSE [local |-> Present(WriteAll(local.segs, readv(plan.read_tuples, R))),
               n |-> plan.n + 1, resume_seek |-> rs, exc |-> "",
               op |-> "readv", tuples |-> plan.read_tuples]
    ELSE IF ~dirok
         THEN [local |-> local, n |-> nn, resume_seek |-> rs, exc |-> "IOError",
               op |-> "get", tuples |-> <<>>]
         ELSE [local |-> Present(Prefix(R)), n |-> nn + 1, resume_seek |-> rs,
               exc |-> "", op |-> "get", tuples |-> <<>>]

\* Lines 203-239: an attempt of the transfer loop that no fault interrupts.
\* st is the frame: local, n, resume_seek; R the remote size.
Attempt(local, nn, rs, r, R, dirok) ==
    IF Ranged(rs, r)
    THEN LET plan == ReadPlan(R, rs.v, nn) IN
         IF ~dirok
         THEN [local |-> local, n |-> plan.n, resume_seek |-> rs, exc |-> "IOError",
               op |-> "readv", tuples |-> plan.read_tuples]
         ELSE IF rs.v < 0
         THEN \* line 220: seek to a negative offset
              [local |-> Present(local.segs), n |-> plan.n, resume_seek |-> rs,
               exc |-> "OSError", op |-> "readv", tuples |-> plan.read_tuples]
         ELSE [local |-> Present(WriteAll(local.segs, readv(plan.read_tuples, R))),
               n |-> plan.n + 1, resume_seek |-> None, exc |-> "",
               op |-> "readv", tuples |-> plan.read_tuples]
    ELSE IF ~dirok
         THEN [local |-> local, n |-> nn, resume_seek |-> rs, exc |-> "IOError",
               op |-> "get", tuples |-> <<>>]
         ELSE [local |-> Present(Prefix(R)), n |-> nn + 1, resume_seek |-> rs,
               exc |-> "", op |-> "get", tuples |-> <<>>]

Transfer ==
    /\ mpc = "while"
    /\ LET e == listing[idx]
           a == Attempt(lfile[idx], n, resume_seek, resume, e.st_size, e.dir \in ldirs)
       IN  /\ lfile' = [lfile EXCEPT ![idx] = a.local]
           /\ n' = a.n
           /\ resume_seek' = a.resume_seek
           /\ ops' = Append(ops, RemoteOp(a.op, idx, a.tuples))
           /\ IF a.exc = ""
              THEN /\ mpc' = "post"
                   /\ transferred' = transferred \cup {idx}
                   /\ UNCHANGED result
              ELSE /\ mpc' = "raised"
                   /\ result' = Raised(a.exc)
                   /\ UNCHANGED transferred
    /\ UNCHANGED <<listing, lfile0, ldirs, dircache, instance_dircache, self, resume, idx,
                   faults, mkdirs, runs, metafailed, vvars, svars, kvars, lvars, tvars>>

\* What chmod (line 267) and utime (line 269) may raise: nothing, an OSError
\* (IOError is the same class), or a TypeError (utime with the None that
\* st_atime and st_mtime are when the server sent no times).
RestoreErrors == {"", "OSError", "TypeError"}

\* Line 270: except IOError.
CaughtByIOError(exc) == exc \in {"IOError", "OSError"}

\* Lines 264-271: chmod and utime; no byte of the file changes.
PostFile(exc) ==
    /\ mpc = "post"
    /\ metafailed' = IF exc = "" THEN metafailed ELSE metafailed \cup {idx}
    /\ IF exc = "" \/ CaughtByIOError(exc)
       THEN mpc' = "for" /\ UNCHANGED result
       ELSE mpc' = "raised" /\ result' = Raised(exc)
    /\ UNCHANGED <<listing, lfile, lfile0, ldirs, dircache, instance_dircache, self, resume,
                   idx, n, resume_seek, ops, transferred, faults, mkdirs, runs, vvars, svars,
                   kvars, lvars, tvars>>

\* Line 273.
MirrorReturn ==
    /\ mpc = "for"
    /\ idx = Len(listing)
    /\ mpc' = "returned"
    /\ result' = Returned(n)
    /\ UNCHANGED <<listing, lfile, lfile0, ldirs, dircache, instance_dircache, self, resume,
                   idx, n, resume_seek, ops, transferred, faults, mkdirs, runs, metafailed,
                   vvars, svars, kvars, lvars, tvars>>

\* The sizes a local file may have when a fault interrupts client.get.
FaultPoints(R) == {q \in {0, 7, ResumeBackoff, MAX_PACKET_SIZE + 7} : q <= R}

\* FaultHandler without the raise of line 256.
FaultHandlerAlwaysRetry(local, r) ==
    IF local.kind # "file"
    THEN [resume_seek |-> None, exc |-> "OSError"]
    ELSE [resume_seek |-> Some(SegSize(local.segs) - ResumeBackoff), exc |-> ""]

\* FaultHandler with the raise of line 256 taken whatever resume is.
FaultHandlerGiveUp(local, r) ==
    IF local.kind # "file"
    THEN [resume_seek |-> None, exc |-> "OSError"]
    ELSE [resume_seek |-> Some(SegSize(local.segs) - ResumeBackoff),
          exc |-> "TransportFault"]

\* Lines 240-262: the handler of socket.timeout and SFTPError, by the size
\* of dest on disk: the new resume_seek, and whether mirror goes on
\* (reconnects) or raises.
FaultHandler(local, r) ==
    IF local.kind # "file"
    THEN [resume_seek |-> None, exc |-> "OSError"]
    ELSE [resume_seek |-> Some(SegSize(local.segs) - ResumeBackoff),
          exc |-> IF r THEN "" ELSE "TransportFault"]

Faulted(local, nn, op, tuples) ==
    LET h == FaultHandler(local, resume) IN
    /\ lfile' = [lfile EXCEPT ![idx] = local]
    /\ n' = nn
    /\ resume_seek' = h.resume_seek
    /\ faults' = faults + 1
    /\ IF h.exc = ""
       THEN /\ ops' = ops \o <<RemoteOp(op, idx, tuples), RemoteOp("connect", 0, <<>>),
                               RemoteOp("chdir", 0, <<>>)>>
            /\ mpc' = "while"
            /\ UNCHANGED result
       ELSE /\ ops' = Append(ops, RemoteOp(op, idx, tuples))
            /\ mpc' = "raised"
            /\ result' = Raised(h.exc)
    /\ UNCHANGED <<listing, lfile0, ldirs, dircache, instance_dircache, self, resume, idx,
                   transferred, mkdirs, runs, metafailed, vvars, svars, kvars, lvars, tvars>>

\* A fault in a ranged transfer (lines 218-224) after k chunks were written;
\* k = 0 is a fault at client.open or at the first read.
ReadvFault(k) ==
    /\ mpc = "while"
    /\ faults < MaxFaults
    /\ Ranged(resume_seek, resume)
    /\ listing[idx].dir \in ldirs
    /\ LET plan == ReadPlan(listing[idx].st_size, resume_seek.v, n)
           chunks == readv(plan.read_tuples, listing[idx].st_size)
       IN  /\ k < Len(chunks)
           /\ resume_seek.v < 0 => k = 0
           /\ Faulted(IF k = 0 THEN lfile[idx]
                      ELSE Present(WriteAll(lfile[idx].segs, SubSeq(chunks, 1, k))),
                      plan.n, "readv", plan.read_tuples)

\* A fault in client.get (line 231) with q bytes of the file written.
GetFault(q) ==
    /\ mpc = "while"
    /\ faults < MaxFaults
    /\ ~Ranged(resume_seek, resume)
    /\ listing[idx].dir \in ldirs
    /\ q \in FaultPoints(listing[idx].st_size)
    /\ Faulted(Present(Prefix(q)), n, "get", <<>>)

MirrorNext ==
    \/ \E r \in BOOLEAN : MirrorStart(1, r)
    \/ ForEntry
    \/ Transfer
    \/ \E k \in 0..(MaxWindows + 1) : ReadvFault(k)
    \/ \E q \in FaultPoints(MAX_PACKET_SIZE * (MaxWindows + 1)) : GetFault(q)
    \/ \E exc \in RestoreErrors : PostFile(exc)
    \/ MirrorReturn
    \/ \E dir \in {"a", "b"} : RemoveDir(dir)

\* The process with more than one client: mirror is also called on the
\* other clients, and clear_directory_cache on any of them.
ClientsNext ==
    \/ MirrorNext
    \/ \E c \in Clients \ {1}, r \in BOOLEAN : MirrorStart(c, r)
    \/ \E c \in Clients : clear_directory_cache(c)

\* ------------------------------------- sftp.py: listdir_attr_recurse
\* The file type bits of st_mode (stat.S_IFDIR, stat.S_IFREG) and the
\* permission bits of owner, group and others.
S_IFDIR == 4 * 4096

S_IFREG == 8 * 4096

Perm(u, g, o) == u * 64 + g * 8 + o

\* a & b on naturals.
RECURSIVE BitAnd(_, _)
BitAnd(a, b) ==
    IF a = 0 \/ b = 0 THEN 0
    ELSE (a % 2) * (b % 2) + 2 * BitAnd(a \div 2, b \div 2)

\* Line 107: da.st_mode & 0o700 == 0o700.
is_dir(st_mode) == BitAnd(st_mode, Perm(7, 0, 0)) = Perm(7, 0, 0)

\* What st_mode says the entry is.
IsDirectory(st_mode) == BitAnd(st_mode, S_IFDIR + S_IFREG) = S_IFDIR

\* The names under the start path, in the order in which the server lists
\* them in their directory.
TreePaths ==
    {<<"a">>, <<"a", "b">>, <<"a", "b", "c">>, <<"a", "d">>, <<"e">>}

ListingOrder == <<"a", "b", "c", "d", "e">>

\* What may be at a path: nothing; a regular file, rw-r--r-- or rwxr-xr-x; a
\* directory, rwxr-xr-x or r-xr-xr-x, which the server lists (listable) or
\* refuses to list with an I/O error.
NoEntry == [present |-> FALSE, st_mode |-> 0, listable |-> FALSE]

Entry(st_mode, listable) == [present |-> TRUE, st_mode |-> st_mode, listable |-> listable]

Entries ==
    {NoEntry}
        \cup {Entry(S_IFREG + m, FALSE) : m \in {Perm(6, 4, 4), Perm(7, 5, 5)}}
        \cup {Entry(S_IFDIR + m, l) : m \in {Perm(7, 5, 5), Perm(5, 5, 5)}, l \in BOOLEAN}

Parent(q) == SubSeq(q, 1, Len(q) - 1)

\* A tree: entries are only in directories that the server lists.
Trees ==
    {t \in [TreePaths -> Entries] :
        \A q \in TreePaths :
            (t[q].present /\ Len(q) > 1)
                => /\ t[Parent(q)].present
                   /\ IsDirectory(t[Parent(q)].st_mode)
                   /\ t[Parent(q)].listable}

\* The start path of the listing, '.'.
StartPath == Rel(<<".">>)

\* The place in the tree that a path under the start path names.
Under(path) == Tail(path.segs)

\* client.listdir_attr(path): the entries of the directory, each with its
\* filename and st_mode, or an IOError when path is no directory or the
\* server refuses.
CanList(tree, path) ==
    \/ Under(path) = <<>>
    \/ /\ Under(path) \in TreePaths
       /\ tree[Under(path)].present
       /\ IsDirectory(tree[Under(path)].st_mode)
       /\ tree[Under(path)].listable

listdir_attr(tree, path) ==
    LET here == SelectSeq(ListingOrder,
                          LAMBDA nm : /\ Append(Under(path), nm) \in TreePaths
                                      /\ tree[Append(Under(path), nm)].present)
    IN  [k \in 1..Len(here) |->
            [filename |-> here[k], st_mode |-> tree[Append(Under(path), here[k])].st_mode]]

\* Lines 114-116: the IOError of a subdirectory goes on to the caller.
ReraiseAlways(exc, flag) == exc # ""

Reraise(exc, flag) == exc # "" /\ flag

\* Lines 105-118: what the generator yields in all, in order, and the
\* exception that ends it, "" when it ends by itself. ListEntries is the for
\* loop of line 106 over the entries das that are left.
RECURSIVE listdir_attr_recurse(_, _, _), ListEntries(_, _, _, _)
listdir_attr_recurse(tree, path, flag) ==
    IF ~CanList(tree, path)
    THEN [items |-> <<>>, exc |-> "IOError"]
    ELSE ListEntries(tree, path, flag, listdir_attr(tree, path))

ListEntries(tree, path, flag, das) ==
    IF das = <<>> THEN [items |-> <<>>, exc |-> ""]
    ELSE LET da == Head(das)
             sub_path == path_join(path, Rel(<<da.filename>>))
         IN  IF is_dir(da.st_mode)
             THEN LET sub == listdir_attr_recurse(tree, sub_path, flag) IN
                  IF Reraise(sub.exc, flag)
                  THEN [items |-> sub.items, exc |-> sub.exc]
                  ELSE LET rest == ListEntries(tree, path, flag, Tail(das)) IN
                       [items |-> sub.items \o rest.items, exc |-> rest.exc]
             ELSE LET rest == ListEntries(tree, path, flag, Tail(das)) IN
                  [items |-> <<sub_path>> \o rest.items, exc |-> rest.exc]

\* The state before the call.
ListSetup(tree, flag) ==
    /\ rtree = tree
    /\ raise_exceptions = flag
    /\ lpc = "idle"
    /\ lyielded = <<>>

\* The call of listdir_attr_recurse: a generator, nothing is listed yet.
ListCall ==
    /\ lpc = "idle"
    /\ lpc' = "iter"
    /\ UNCHANGED <<rtree, raise_exceptions, lyielded, vvars, mvars, svars, kvars, tvars>>

\* next() of the generator: the next yield, the end, or the IOError.
ListNext ==
    /\ lpc = "iter"
    /\ LET w == listdir_attr_recurse(rtree, StartPath, raise_exceptions) IN
       IF Len(lyielded) < Len(w.items)
       THEN /\ lyielded' = Append(lyielded, w.items[Len(lyielded) + 1])
            /\ UNCHANGED lpc
       ELSE /\ lpc' = IF w.exc = "" THEN "done" ELSE "raised"
            /\ UNCHANGED lyielded
    /\ UNCHANGED <<rtree, raise_exceptions, vvars, mvars, svars, kvars, tvars>>

ListingNext ==
    \/ ListCall
    \/ ListNext

\* ---------------------------------- util.py: _get_torrent_pieces alone
\* The sizes of test_util.py:48-49.
FILE_SIZE == 2509

PIECE_LENGTH == 256

\* What is on disk at the name of a listed file: the file, nothing, or a
\* directory (which stat sizes and open refuses).
StreamKinds == {"file", "missing", "dir"}

StreamBase == Abs(Cwd \o <<"dl", TorrentName>>)

\* The data of the files, as the torrent generator lays them out.
StreamData(sc) == AllData(SumSeq(sc.sizes), "distinct")

\* The disk the generator reads.
StreamDisk(sc) ==
    LET d == MakeDisk(FALSE, sc.sizes, StreamData(sc)) IN
    [q \in {r \in DOMAIN d :
               \A i \in 1..Len(sc.sizes) :
                  r = DataPath(FALSE, i) => sc.kinds[i] # "missing"} |->
        IF \E i \in 1..Len(sc.sizes) : q = DataPath(FALSE, i) /\ sc.kinds[i] = "dir"
        THEN DirNode ELSE d[q]]

\* The filenames argument.
StreamNames(sc) ==
    [i \in 1..Len(sc.sizes) |-> [haspath |-> TRUE, p |-> Rel(<<FileNames[i]>>)]]

StreamSetup(sizes, kinds, pl) ==
    /\ sscen = [sizes |-> sizes, kinds |-> kinds, piece_length |-> pl]
    /\ sgen = GenInit(pl)
    /\ syield = <<>>

\* Every list of files within the bounds, at most one of them unreadable,
\* and the two files of the tests.
StreamInit ==
    \/ \E nf \in 0..MaxStreamFiles, pl \in 1..MaxPieceLength :
         \E sizes \in [1..nf -> 0..MaxFileSize], bad \in 0..nf, k \in StreamKinds :
            /\ (bad = 0) = (k = "file")
            /\ StreamSetup(sizes, [i \in 1..nf |-> IF i = bad THEN k ELSE "file"], pl)
    \/ StreamSetup(<<FILE_SIZE, FILE_SIZE>>, <<"file", "file">>, PIECE_LENGTH)

\* One step of the generator, its consumer resuming it after every yield as
\* list() does.
StreamStep ==
    /\ sgen.pc \notin {"end", "raised"}
    /\ LET r == GenAdvance(StreamDisk(sscen), StreamNames(sscen), StreamBase,
                           sscen.piece_length, sgen)
       IN  /\ sgen' = r.g
           /\ syield' = IF r.out.kind \in {"piece", "none", "raise"}
                         THEN Append(syield, r.out) ELSE syield
    /\ UNCHANGED <<sscen, vvars, mvars, kvars, lvars, tvars>>

StreamNext == StreamStep

\* ------------------------------------------------- mirror.py: main
Hashes == 1..MaxTorrents

StillRunning == [kind |-> "running", status |-> 0, exc |-> ""]

\* sys.exit(status), or SystemExit raised with a message (status 1).
Exited(status) == [kind |-> "exit", status |-> status, exc |-> ""]

\* An exception nothing catches ends the process.
Uncaught(exc) == [kind |-> "raise", status |-> 1, exc |-> exc]

\* The k-th of the hashes in S, in the order the loops take them.
Nth(S, k) == CHOOSE x \in S : Cardinality({y \in S : y < x}) = k - 1

MainSetup ==
    /\ cpc = "start"
    /\ _lock = "None"
    /\ main_lock = "unbound"
    /\ lockheld = FALSE
    /\ debug = FALSE
    /\ cnames = {}
    /\ cbad = {}
    /\ cidx = 0
    /\ moved = {}
    /\ labelled = {}
    /\ exit_status = 0
    /\ ended = StillRunning
    /\ sigat = "none"
    /\ releases = 0
    /\ move_requests = {}

\* The process ends here.
End(how) == cpc' = "exited" /\ ended' = how

\* Line 44.
InstallHandler ==
    /\ cpc = "start"
    /\ cpc' = "args"
    /\ UNCHANGED <<_lock, main_lock, lockheld, debug, cnames, cbad, cidx, moved, labelled,
                   exit_status, ended, sigat, releases, move_requests,
                   vvars, mvars, svars, lvars, tvars>>

\* Lines 46-93: the arguments, the logger, the netrc file; parse_args exits
\* with status 2 on a bad command line.
ParseArgs(dbg, ok) ==
    /\ cpc = "args"
    /\ IF ok THEN debug' = dbg /\ cpc' = "acquire" /\ UNCHANGED ended
             ELSE debug' = debug /\ End(Exited(2))
    /\ UNCHANGED <<_lock, main_lock, lockheld, cnames, cbad, cidx, moved, labelled,
                   exit_status, sigat, releases, move_requests,
                   vvars, mvars, svars, lvars, tvars>>

\* Lines 96-97: the LockFile is bound to the _lock of main (the function has
\* no global statement) and acquired.
Acquire ==
    /\ cpc = "acquire"
    /\ main_lock' = "LockFile"
    /\ lockheld' = TRUE
    /\ cpc' = "list"
    /\ UNCHANGED <<_lock, debug, cnames, cbad, cidx, moved, labelled, exit_status, ended,
                   sigat, releases, move_requests,
                   vvars, mvars, svars, lvars, tvars>>

\* Lines 120-135: list_torrents, and the torrents under the remote directory.
ListTorrents(out, found) ==
    /\ cpc = "list"
    /\ CASE out = "ok" ->
              /\ cnames' = found
              /\ cpc' = "sftp"
              /\ UNCHANGED <<lockheld, ended, releases>>
         [] out = "ConnectionError" ->
              \* lines 122-129
              /\ found = {}
              /\ lockheld' = FALSE
              /\ releases' = releases + 1
              /\ End(Exited(1))
              /\ UNCHANGED cnames
         [] OTHER ->
              \* raise_for_status (client.py:161): not a ConnectionError
              /\ found = {}
              /\ End(Uncaught(out))
              /\ UNCHANGED <<lockheld, cnames, releases>>
    /\ UNCHANGED <<_lock, main_lock, debug, cbad, cidx, moved, labelled, exit_status,
                   sigat, move_requests,
                   vvars, mvars, svars, lvars, tvars>>

\* Lines 146-177: the SFTP session and the mirror.
Sftp(out) ==
    /\ cpc = "sftp"
    /\ IF out = "Exception"
       THEN \* lines 169-177
            /\ lockheld' = FALSE
            /\ releases' = releases + 1
            /\ End(IF debug THEN Uncaught("Exception") ELSE Exited(0))
            /\ UNCHANGED cidx
       ELSE IF cnames = {}
       THEN \* lines 160-163
            /\ lockheld' = FALSE
            /\ releases' = releases + 1
            /\ End(Exited(0))
            /\ UNCHANGED cidx
       ELSE /\ cpc' = "verify"
            /\ cidx' = 0
            /\ UNCHANGED <<lockheld, ended, releases>>
    /\ UNCHANGED <<_lock, main_lock, debug, cnames, cbad, moved, labelled, exit_status,
                   sigat, move_requests,
                   vvars, mvars, svars, lvars, tvars>>

\* Lines 182-194: one torrent is fetched and verified.
VerifyOne(out) ==
    /\ cpc = "verify"
    /\ cidx < Cardinality(cnames)
    /\ LET hash == Nth(cnames, cidx + 1) IN
       CASE out = "ok" ->
              /\ cidx' = cidx + 1
              /\ UNCHANGED <<cpc, cbad, exit_status, ended>>
         [] out = "VerificationError" ->
              /\ cidx' = cidx + 1
              /\ cbad' = cbad \cup {hash}
              /\ exit_status' = 1
              /\ UNCHANGED <<cpc, ended>>
         [] OTHER ->
              \* get_torrent raises, or verify_torrent_contents another error
              /\ End(Uncaught(out))
              /\ UNCHANGED <<cidx, cbad, exit_status>>
    /\ UNCHANGED <<_lock, main_lock, lockheld, debug, cnames, moved, labelled, sigat,
                   releases, move_requests,
                   vvars, mvars, svars, lvars, tvars>>

\* The loop of line 182 is over.
VerifyDone ==
    /\ cpc = "verify"
    /\ cidx = Cardinality(cnames)
    /\ cpc' = "move"
    /\ cidx' = 0
    /\ UNCHANGED <<_lock, main_lock, lockheld, debug, cnames, cbad, moved, labelled,
                   exit_status, ended, sigat, releases, move_requests,
                   vvars, mvars, svars, lvars, tvars>>

\* MoveOne without the test of line 200: the torrents in bad are moved too.
MoveOneNoBadTest(out) ==
    /\ cpc = "move"
    /\ cidx < Cardinality(cnames)
    /\ LET hash == Nth(cnames, cidx + 1) IN
       IF FALSE
       THEN /\ out = "ok"
            /\ cidx' = cidx + 1
            /\ UNCHANGED <<cpc, moved, ended, move_requests>>
       ELSE /\ move_requests' = move_requests \cup {hash}
            /\ CASE out = "ok" ->
                      /\ cidx' = cidx + 1
                      /\ moved' = moved \cup {hash}
                      /\ UNCHANGED <<cpc, ended>>
                 [] out = "UnexpectedruTorrentError" ->
                      /\ cidx' = cidx + 1
                      /\ UNCHANGED <<cpc, moved, ended>>
                 [] OTHER ->
                      /\ End(Uncaught(out))
                      /\ UNCHANGED <<cidx, moved>>
    /\ UNCHANGED <<_lock, main_lock, lockheld, debug, cnames, cbad, labelled, exit_status,
                   sigat, releases,
                   vvars, mvars, svars, lvars, tvars>>

\* Lines 199-206: one torrent is moved, unless it is in bad.
MoveOne(out) ==
    /\ cpc = "move"
    /\ cidx < Cardinality(cnames)
    /\ LET hash == Nth(cnames, cidx + 1) IN
       IF hash \in cbad
       THEN /\ out = "ok"
            /\ cidx' = cidx + 1
            /\ UNCHANGED <<cpc, moved, ended, move_requests>>
       ELSE /\ move_requests' = move_requests \cup {hash}
            /\ CASE out = "ok" ->
                      /\ cidx' = cidx + 1
                      /\ moved' = moved \cup {hash}
                      /\ UNCHANGED <<cpc, ended>>
                 [] out = "UnexpectedruTorrentError" ->
                      /\ cidx' = cidx + 1
                      /\ UNCHANGED <<cpc, moved, ended>>
                 [] OTHER ->
                      /\ End(Uncaught(out))
                      /\ UNCHANGED <<cidx, moved>>
    /\ UNCHANGED <<_lock, main_lock, lockheld, debug, cnames, cbad, labelled, exit_status,
                   sigat, releases,
                   vvars, mvars, svars, lvars, tvars>>

\* The loop of line 199 is over.
MoveDone ==
    /\ cpc = "move"
    /\ cidx = Cardinality(cnames)
    /\ cpc' = "label"
    /\ UNCHANGED <<_lock, main_lock, lockheld, debug, cnames, cbad, cidx, moved, labelled,
                   exit_status, ended, sigat, releases, move_requests,
                   vvars, mvars, svars, lvars, tvars>>

\* Lines 210-212: the label for the hashes not in bad; set_label_to_hashes
\* raises TypeError for an empty list (client.py:368-370).
SetLabel(out) ==
    /\ cpc = "label"
    /\ IF cnames \ cbad = {}
       THEN /\ out = "ok"
            /\ End(Uncaught("TypeError"))
            /\ UNCHANGED labelled
       ELSE IF out = "ok"
       THEN /\ labelled' = cnames \ cbad
            /\ cpc' = "release"
            /\ UNCHANGED ended
       ELSE /\ End(Uncaught(out))
            /\ UNCHANGED labelled
    /\ UNCHANGED <<_lock, main_lock, lockheld, debug, cnames, cbad, cidx, moved,
                   exit_status, sigat, releases, move_requests,
                   vvars, mvars, svars, lvars, tvars>>

\* Line 217.
Release ==
    /\ cpc = "release"
    /\ lockheld' = FALSE
    /\ releases' = releases + 1
    /\ cpc' = "exit"
    /\ UNCHANGED <<_lock, main_lock, debug, cnames, cbad, cidx, moved, labelled,
                   exit_status, ended, sigat, move_requests,
                   vvars, mvars, svars, lvars, tvars>>

\* Line 218.
Exit ==
    /\ cpc = "exit"
    /\ End(Exited(exit_status))
    /\ UNCHANGED <<_lock, main_lock, lockheld, debug, cnames, cbad, cidx, moved, labelled,
                   exit_status, sigat, releases, move_requests,
                   vvars, mvars, svars, lvars, tvars>>

\* Lines 32-40: lock_ctrl_c_handler releases the module's _lock if there is
\* one; whether the lock file is held afterwards.
lock_ctrl_c_handler(module_lock, held) ==
    IF module_lock # "None" THEN FALSE ELSE held

\* SIGINT arrives. Before line 44 Python raises KeyboardInterrupt; after it
\* lock_ctrl_c_handler runs and ctrl_c_handler (util.py:26-28) raises
\* SystemExit, which no except clause of main catches.
Sigint ==
    /\ cpc # "exited"
    /\ sigat = "none"
    /\ sigat' = cpc
    /\ IF cpc = "start"
       THEN End(Uncaught("KeyboardInterrupt")) /\ UNCHANGED <<lockheld, releases>>
       ELSE /\ lockheld' = lock_ctrl_c_handler(_lock, lockheld)
            /\ releases' = IF _lock # "None" THEN releases + 1 ELSE releases
            /\ End(Exited(1))
    /\ UNCHANGED <<_lock, main_lock, debug, cnames, cbad, cidx, moved, labelled,
                   exit_status, move_requests,
                   vvars, mvars, svars, lvars, tvars>>

MainNext ==
    \/ InstallHandler
    \/ \E dbg \in BOOLEAN, ok \in BOOLEAN : ParseArgs(dbg, ok)
    \/ Acquire
    \/ \E out \in {"ok", "ConnectionError", "HTTPError"}, found \in SUBSET Hashes :
          ListTorrents(out, found)
    \/ \E out \in {"ok", "Exception"} : Sftp(out)
    \/ \E out \in {"ok", "VerificationError", "HTTPError", "IOError"} : VerifyOne(out)
    \/ VerifyDone
    \/ \E out \in {"ok", "UnexpectedruTorrentError", "HTTPError"} : MoveOne(out)
    \/ MoveDone
    \/ \E out \in {"ok", "HTTPError"} : SetLabel(out)
    \/ Release
    \/ Exit
    \/ Sigint

\* ------------------------------ client.py: set_label_to_hashes
\* A label is a string, here the sequence of its characters; the label that
\* was not passed is None (line 363).
NoLabel == <<"None">>

\* str.strip(): the whitespace at both ends is taken off.
RECURSIVE strip(_)
strip(s) ==
    IF s # <<>> /\ Head(s) = " " THEN strip(Tail(s))
    ELSE IF s # <<>> /\ s[Len(s)] = " " THEN strip(SubSeq(s, 1, Len(s) - 1))
    ELSE s

\* What list_torrents() can return: some of the torrents, each with a label
\* that is empty, blank or not.
TorrentLists == UNION {[hs -> {<<>>, <<" ">>, <<"x">>}] : hs \in SUBSET Hashes}

LabelSetup ==
    /\ tpc = "idle"
    /\ kwargs = [hashes |-> {}, label |-> NoLabel, allow_recursive_fix |-> TRUE,
                 recursion_limit |-> 0, recursion_attempt |-> 0]
    /\ label_hashes = {}
    /\ label = NoLabel
    /\ allow_recursive_fix = TRUE
    /\ recursion_limit = 0
    /\ recursion_attempt = 0
    /\ listed = <<>>
    /\ label_requests = <<>>
    /\ texc = "none"

\* Lines 362-366: the call and its keyword arguments.
LabelCall(hs, lb, fix, lim, att) ==
    /\ tpc = "idle"
    /\ kwargs' = [hashes |-> hs, label |-> lb, allow_recursive_fix |-> fix,
                  recursion_limit |-> lim, recursion_attempt |-> att]
    /\ label_hashes' = hs
    /\ label' = lb
    /\ allow_recursive_fix' = fix
    /\ recursion_limit' = lim
    /\ recursion_attempt' = att
    /\ tpc' = "check"
    /\ UNCHANGED <<listed, label_requests, texc, vvars, mvars, svars, kvars, lvars>>

\* Lines 368-370; 'not label' holds for None and for the empty string.
CheckArgs ==
    /\ tpc = "check"
    /\ IF label_hashes = {} \/ label = NoLabel \/ label = <<>>
       THEN tpc' = "raised" /\ texc' = "TypeError"
       ELSE tpc' = "post" /\ UNCHANGED texc
    /\ UNCHANGED <<kwargs, label_hashes, label, allow_recursive_fix, recursion_limit,
                   recursion_attempt, listed, label_requests,
                   vvars, mvars, svars, kvars, lvars>>

\* Line 393 with <= for <: one attempt more than the limit.
RetryAllowedOnceMore == allow_recursive_fix /\ recursion_attempt <= recursion_limit

\* Line 393.
RetryAllowed == allow_recursive_fix /\ recursion_attempt < recursion_limit

\* Lines 372-394 and 420-421: the request is posted; err is what the post or
\* raise_for_status raises, len the length of the JSON array answered.
PostSetLabel(err, len) ==
    /\ tpc = "post"
    /\ label_requests' = Append(label_requests, [hashes |-> label_hashes, label |-> label])
    /\ IF err # "none"
       THEN /\ len = 0
            /\ tpc' = "raised"
            /\ texc' = err
            /\ UNCHANGED recursion_attempt
       ELSE IF len # Cardinality(label_hashes) /\ RetryAllowed
       THEN /\ recursion_attempt' = recursion_attempt + 1
            /\ tpc' = "list"
            /\ UNCHANGED texc
       ELSE /\ tpc' = "returned"
            /\ UNCHANGED <<recursion_attempt, texc>>
    /\ UNCHANGED <<kwargs, label_hashes, label, allow_recursive_fix, recursion_limit,
                   listed, vvars, mvars, svars, kvars, lvars>>

\* Lines 405-410: the torrents of hashes that list_torrents() shows with a
\* label that strip() leaves empty.
new_hashes(t) == {h \in DOMAIN t : ~(h \notin label_hashes \/ strip(t[h]) # <<>>)}

\* Lines 402-419: the torrents are listed, and the call is made again for
\* new_hashes with the same label, limit and the attempt counted; without
\* allow_recursive_fix in its arguments, which is then True (line 364).
\* Nothing follows the inner call, so its end is the end of the outer one.
ListForRetry(err, t) ==
    /\ tpc = "list"
    /\ IF err # "none"
       THEN /\ t = <<>>
            /\ tpc' = "raised"
            /\ texc' = err
            /\ UNCHANGED <<listed, label_hashes, allow_recursive_fix>>
       ELSE /\ listed' = t
            /\ UNCHANGED texc
            /\ IF new_hashes(t) = {}
               THEN /\ tpc' = "returned"
                    /\ UNCHANGED <<label_hashes, allow_recursive_fix>>
               ELSE /\ label_hashes' = new_hashes(t)
                    /\ allow_recursive_fix' = TRUE
                    /\ tpc' = "check"
    /\ UNCHANGED <<kwargs, label, recursion_limit, recursion_attempt, label_requests,
                   vvars, mvars, svars, kvars, lvars>>

\* What the call does by itself once made: every request gets an answer, or
\* an error of the post or of raise_for_status.
LabelSteps ==
    \/ CheckArgs
    \/ \E err \in {"none", "ConnectionError", "HTTPError"}, len \in 0..MaxTorrents :
           PostSetLabel(err, len)
    \/ \E err \in {"none", "ConnectionError", "HTTPError"}, t \in TorrentLists :
           ListForRetry(err, t)

LabelNext ==
    \/ \E hs \in SUBSET Hashes, lb \in {NoLabel, <<>>, <<" ">>, <<"x">>}, fix \in BOOLEAN,
          lim \in 0..MaxLimit, att \in 0..MaxLimit : LabelCall(hs, lb, fix, lim, att)
    \/ LabelSteps

\* ------------------------------------------------------ specifications
\* The verifier on every generated torrent; the mirror is not running.
InitVerify ==
    /\ VerifyInit
    /\ MirrorSetup(<<[dir |-> "a", name |-> "x"]>>, <<0>>, <<Absent>>)
    /\ StreamSetup(<<>>, <<>>, 1)
    /\ ListSetup([q \in TreePaths |-> NoEntry], FALSE)
    /\ MainSetup
    /\ LabelSetup

SpecVerify == InitVerify /\ [][VerifyNext]_vars

\* The mirror on every remote tree and local state; the verifier is not
\* running.
InitMirror ==
    /\ MirrorInit
    /\ VerifySetup(TRUE, <<0>>, 1, "zeros")
    /\ StreamSetup(<<>>, <<>>, 1)
    /\ ListSetup([q \in TreePaths |-> NoEntry], FALSE)
    /\ MainSetup
    /\ LabelSetup

SpecMirror == InitMirror /\ [][MirrorNext]_vars

\* The steps mirror takes by itself: the interpreter runs the loop of lines
\* 171-271 on; a fault is up to the network, a further call and the removal
\* of a directory up to the caller.
MirrorSteps ==
    \/ ForEntry
    \/ Transfer
    \/ \E exc \in RestoreErrors : PostFile(exc)
    \/ MirrorReturn

\* The runs on a tree of one file.
InitMirrorOne ==
    /\ InitMirror
    /\ Len(listing) = 1

SpecMirrorFair == InitMirrorOne /\ [][MirrorNext]_vars /\ WF_vars(MirrorSteps)

\* The runs of the clients of one process on a tree of one file.
SpecClients == InitMirrorOne /\ [][ClientsNext]_vars

\* The piece streamer on every list of files; neither the verifier nor the
\* mirror is running.
InitStream ==
    /\ StreamInit
    /\ ListSetup([q \in TreePaths |-> NoEntry], FALSE)
    /\ VerifySetup(TRUE, <<0>>, 1, "zeros")
    /\ MirrorSetup(<<[dir |-> "a", name |-> "x"]>>, <<0>>, <<Absent>>)
    /\ MainSetup
    /\ LabelSetup

SpecStream == InitStream /\ [][StreamNext]_vars

\* The listing of every tree, with the flag set and unset; nothing else is
\* running.
InitListing ==
    /\ \E tree \in Trees, flag \in BOOLEAN : ListSetup(tree, flag)
    /\ VerifySetup(TRUE, <<0>>, 1, "zeros")
    /\ MirrorSetup(<<[dir |-> "a", name |-> "x"]>>, <<0>>, <<Absent>>)
    /\ StreamSetup(<<>>, <<>>, 1)
    /\ MainSetup
    /\ LabelSetup

SpecListing == InitListing /\ [][ListingNext]_vars

\* The mirror command; the other three are not running.
InitMain ==
    /\ MainSetup
    /\ VerifySetup(TRUE, <<0>>, 1, "zeros")
    /\ MirrorSetup(<<[dir |-> "a", name |-> "x"]>>, <<0>>, <<Absent>>)
    /\ StreamSetup(<<>>, <<>>, 1)
    /\ ListSetup([q \in TreePaths |-> NoEntry], FALSE)
    /\ LabelSetup

SpecMain == InitMain /\ [][MainNext]_vars

\* One call of set_label_to_hashes with every argument and every answer of
\* the server; nothing else is running.
InitLabel ==
    /\ LabelSetup
    /\ VerifySetup(TRUE, <<0>>, 1, "zeros")
    /\ MirrorSetup(<<[dir |-> "a", name |-> "x"]>>, <<0>>, <<Absent>>)
    /\ StreamSetup(<<>>, <<>>, 1)
    /\ ListSetup([q \in TreePaths |-> NoEntry], FALSE)
    /\ MainSetup

SpecLabel == InitLabel /\ [][LabelNext]_vars

\* The call goes on by itself once made: the interpreter runs it, and each of
\* its requests ends with an answer or an error.
SpecLabelFair == InitLabel /\ [][LabelNext]_vars /\ WF_vars(LabelSteps)

\* -------------------------------------------------- claims on the mirror
\* Entry i was found at its destination as the first S bytes of the remote
\* file, S less than the remote size.
PartialPrefix(i) ==
    /\ lfile0[i].kind = "file"
    /\ \E S \in Sizes : S < listing[i].st_size /\ lfile0[i].segs = Prefix(S)

\* The local file of entry i holds exactly the bytes of the remote file.
Identical(i) == lfile[i] = Present(Prefix(listing[i].st_size))

\* C8: after a run with resume and without a transport fault, every local
\* file that was a proper prefix of its remote file is byte-identical to it.
C8_ResumeCompletesPrefix ==
    (mpc = "returned" /\ resume /\ faults = 0) =>
        \A i \in 1..Len(listing) : PartialPrefix(i) => Identical(i)

\* The part of C8 that the code keeps: the bytes missing are no multiple of
\* MAX_PACKET_SIZE.
C8_ResumeCompletesPrefixNoMultiple ==
    (mpc = "returned" /\ resume /\ faults = 0) =>
        \A i \in 1..Len(listing) :
            (PartialPrefix(i)
               /\ (listing[i].st_size - SegSize(lfile0[i].segs)) % MAX_PACKET_SIZE # 0)
            => Identical(i)

\* C9: the value returned is the number of files whose transfer completed in
\* this run.
C9_ReturnsTransferCount ==
    mpc = "returned" => result.val = Cardinality(transferred)

\* Entry i was found at its destination with the remote size.
SameSize(i) ==
    /\ i \in 1..Len(listing)
    /\ lfile0[i].kind = "file"
    /\ SegSize(lfile0[i].segs) = listing[i].st_size

\* mirror is between its call and its return or raise.
Running == mpc \in {"for", "while", "post"}

\* C10: while the entry handled is one found with the remote size, no step
\* of mirror issues a remote operation, changes a local byte, changes n or
\* enters the transfer loop.
C10_SameSizeIsLeftAlone ==
    [][(Running /\ SameSize(idx')) =>
          /\ ops' = ops
          /\ lfile' = lfile
          /\ n' = n
          /\ transferred' = transferred
          /\ mpc' # "while"]_vars

C10_Witness ==
    /\ mpc = "returned"
    /\ \E i \in 1..Len(listing) :
          SameSize(i) /\ lfile[i] = Present(<<Seg("x", 0, listing[i].st_size)>>)
    /\ transferred # {}

\* The remote operations of this run on entry i, in order.
OpsOf(i) == SelectSeq(ops, LAMBDA o : o.file = i)

HasOp(i) == OpsOf(i) # <<>>

\* Entry i was found at its destination as a file of another size than the
\* remote file's.
SizeDiffers(i) ==
    /\ lfile0[i].kind = "file"
    /\ SegSize(lfile0[i].segs) # listing[i].st_size

\* C11: for a local file found with another size than the remote file's, the
\* first transfer is a ranged one, from the local size on, only if resume is
\* set and the local size is the smaller one; with resume unset, or with the
\* local size the bigger one, it is a transfer of the whole file, which then
\* holds the remote bytes from offset 0.
C11_ResumeOnlyWhenSmaller ==
    Running =>
      \A i \in 1..Len(listing) :
        (SizeDiffers(i) /\ HasOp(i)) =>
          LET o == OpsOf(i)[1]
              S == SegSize(lfile0[i].segs)
              R == listing[i].st_size
          IN  /\ o.op = "readv" => (resume /\ S < R /\ o.tuples[1].off = S)
              /\ (~resume \/ S > R) => o.op = "get"
              /\ (o.op = "get" /\ OpsOf(i) = <<o>> /\ i \in transferred) => Identical(i)

\* The part of C11 that the code keeps: resume unset, or the local size the
\* smaller one.
C11_ResumeOnlyWhenSmallerNotBigger ==
    Running =>
      \A i \in 1..Len(listing) :
        (SizeDiffers(i) /\ HasOp(i) /\ SegSize(lfile0[i].segs) < listing[i].st_size) =>
          LET o == OpsOf(i)[1]
              S == SegSize(lfile0[i].segs)
          IN  /\ o.op = "readv" => (resume /\ o.tuples[1].off = S)
              /\ ~resume => o.op = "get"
              /\ (o.op = "get" /\ OpsOf(i) = <<o>> /\ i \in transferred) => Identical(i)

\* Nothing, or a file of no byte.
EmptyOrAbsent(l) == l.kind = "absent" \/ (l.kind = "file" /\ SegSize(l.segs) = 0)

\* What a run with resume unset does at the same point of the transfer loop.
WithoutResume ==
    Attempt(lfile[idx], n, resume_seek, FALSE, listing[idx].st_size,
            listing[idx].dir \in ldirs)

\* The first attempt of the transfer loop for the entry handled, no fault
\* interrupting it, in a run with resume set.
FirstAttemptWithResume ==
    mpc = "while" /\ resume /\ ~HasOp(idx) /\ faults' = faults

\* C12 as stated: with resume set, an entry found absent or empty is
\* transferred whole, once, by the operations of a run with resume unset,
\* whatever was handled before it in the run.
C12_AbsentOrEmptyAsWithoutResume ==
    [][/\ (mpc = "for" /\ idx' = idx + 1 /\ resume /\ EmptyOrAbsent(lfile0[idx']))
            => mpc' = "while"
       /\ (FirstAttemptWithResume /\ EmptyOrAbsent(lfile0[idx]))
            => /\ ops' = Append(ops, RemoteOp("get", idx, <<>>))
               /\ lfile' = [lfile EXCEPT ![idx] = WithoutResume.local]
               /\ n' = WithoutResume.n
               /\ (mpc' = "raised") = (WithoutResume.exc # "")]_vars

\* C12, but for the empty local file of an empty remote file, which has the
\* remote size and is not transferred (C10): with resume set, an entry found
\* absent, or found empty while the remote file is not, enters the transfer
\* loop, and its first attempt is the client.get of a run with resume unset,
\* with the same local file, the same n and the same exception, whatever
\* was handled before it in the run.
C12_AbsentOrEmptyAsWithoutResumeUnlessBothEmpty ==
    [][/\ (mpc = "for" /\ idx' = idx + 1 /\ resume /\ EmptyOrAbsent(lfile0[idx'])
              /\ ~(lfile0[idx'].kind = "file" /\ listing[idx'].st_size = 0))
            => mpc' = "while"
       /\ (FirstAttemptWithResume /\ EmptyOrAbsent(lfile0[idx]))
            => /\ ops' = Append(ops, RemoteOp("get", idx, <<>>))
               /\ lfile' = [lfile EXCEPT ![idx] = WithoutResume.local]
               /\ n' = WithoutResume.n
               /\ (mpc' = "raised") = (WithoutResume.exc # "")]_vars

\* An absent file fetched whole right after a ranged transfer of the entry
\* before it.
C12_Witness ==
    /\ mpc = "returned" /\ resume /\ Len(listing) = 2
    /\ lfile0[2] = Absent /\ listing[2].st_size > 0
    /\ Len(ops) = 2 /\ ops[1].op = "readv" /\ ops[2] = RemoteOp("get", 2, <<>>)
    /\ Identical(2)

\* C13: with resume unset, a transport fault ends mirror at once: the fault
\* is raised, no reconnect follows the failed transfer, the count is not
\* returned, and nothing is done after the raise.
C13_FaultWithoutResumeIsRaised ==
    [][/\ mpc # "raised"
       /\ (mpc = "while" /\ ~resume /\ faults' = faults + 1)
            => /\ mpc' = "raised"
               /\ result' = Raised("TransportFault")
               /\ ops' = Append(ops, RemoteOp("get", idx, <<>>))
               /\ idx' = idx /\ n' = n /\ transferred' = transferred]_vars

C13_Witness ==
    /\ mpc = "raised" /\ ~resume /\ faults = 1
    /\ result = Raised("TransportFault")
    /\ idx = 1 /\ Len(listing) = 2
    /\ ops = <<RemoteOp("get", 1, <<>>)>>

\* The makedirs calls of this run for dest_path dir.
Attempts(dir) == Len(SelectSeq(mkdirs, LAMBDA x : x = dir))

\* C14: in every run, the directory of every entry reached has had exactly
\* one creation attempt in that run (made before the entry's transfer), in a
\* second run on the same client as in the first.
C14_OneCreationAttemptPerRun ==
    Running => \A i \in 1..idx : Attempts(listing[i].dir) = 1

\* The part of C14 that the code keeps: the first run on the client.
C14_OneCreationAttemptFirstRun ==
    (Running /\ runs = 1) => \A i \in 1..idx : Attempts(listing[i].dir) = 1

\* C15: a failure of chmod or utime does not end mirror: nothing is raised,
\* n is unchanged and the loop goes on to the next entry.
C15_RestoreFailureNeverEscalates ==
    [][(mpc = "post" /\ metafailed' # metafailed)
          => (mpc' = "for" /\ result' = result /\ n' = n)]_vars

\* The part of C15 that the code keeps: the failure is an OSError.
C15_RestoreOSErrorNeverEscalates ==
    [][(mpc = "post" /\ metafailed' # metafailed /\ result'.exc # "TypeError")
          => (mpc' = "for" /\ result' = result /\ n' = n)]_vars

\* The ranged transfers of this run whose first window starts inside the
\* remote file, after its first byte.
RangedOps == {k \in 1..Len(ops) : ops[k].op = "readv"
                                  /\ ops[k].tuples[1].off > 0
                                  /\ ops[k].tuples[1].off < listing[ops[k].file].st_size}

\* The windows t start at o, follow one another without gap or overlap, have
\* between 1 and MAX_PACKET_SIZE bytes each, and end at R.
PartitionOf(t, o, R) ==
    /\ t # <<>>
    /\ t[1].off = o
    /\ \A k \in 1..Len(t) : t[k].size >= 1 /\ t[k].size <= MAX_PACKET_SIZE
    /\ \A k \in 1..(Len(t) - 1) : t[k + 1].off = t[k].off + t[k].size
    /\ t[Len(t)].off + t[Len(t)].size = R

\* C21: the read windows of every resumed transfer from an offset o with
\* 0 < o < R are contiguous, start at o, have between 1 and MAX_PACKET_SIZE
\* bytes and add up to R - o, also when R - o is a multiple of
\* MAX_PACKET_SIZE.
C21_WindowsPartitionRange ==
    \A k \in RangedOps :
        PartitionOf(ops[k].tuples, ops[k].tuples[1].off, listing[ops[k].file].st_size)

\* The part of C21 that the code keeps: R - o is no multiple of
\* MAX_PACKET_SIZE.
C21_WindowsPartitionRangeNoMultiple ==
    \A k \in RangedOps :
        (listing[ops[k].file].st_size - ops[k].tuples[1].off) % MAX_PACKET_SIZE # 0
        => PartitionOf(ops[k].tuples, ops[k].tuples[1].off, listing[ops[k].file].st_size)

\* A step of a ranged transfer that opened dest: the attempt, whole or cut
\* short by a fault.
RangedStep ==
    /\ mpc = "while"
    /\ Ranged(resume_seek, resume)
    /\ resume_seek.v >= 0
    /\ listing[idx].dir \in ldirs
    /\ Len(ops') > Len(ops)

\* The chunks are those of the windows, in the order of the windows, and each
\* chunk that has bytes is stored at the offset of its window.
WritesLandAtWindows ==
    LET plan == ReadPlan(listing[idx].st_size, resume_seek.v, n)
        chunks == readv(plan.read_tuples, listing[idx].st_size)
        lands == LandingOffsets(lfile[idx].segs, chunks)
    IN  /\ ops'[Len(ops) + 1].tuples = plan.read_tuples
        /\ \A k \in 1..Len(chunks) :
              /\ chunks[k].off = plan.read_tuples[k].off
              /\ chunks[k].len > 0 => lands[k] = plan.read_tuples[k].off

\* No transfer of this file was attempted before in this run.
FirstAttempt == ~HasOp(idx)

\* C22: in a ranged transfer the chunks are written in the order of the read
\* windows, the k-th write storing the bytes of window k at the local offset
\* that is the resume offset plus the lengths of the windows before it.
C22_ChunksLandAtWindowOffsets ==
    [][RangedStep => WritesLandAtWindows]_vars

\* The part of C22 that the code keeps: the first attempt of a file, which
\* resumes at the size of dest.
C22_ChunksLandAtWindowOffsetsFirstAttempt ==
    [][(RangedStep /\ FirstAttempt) => WritesLandAtWindows]_vars

\* A step in which a fault interrupts an attempt of a run with resume.
FaultStep == mpc = "while" /\ resume /\ faults' = faults + 1

\* The handler's part: the resume offset is the size of dest less 10, then
\* the new session, then the working directory, with no remote read after
\* the interrupted operation, and the transfer loop goes on with the file.
HandlerOrder ==
    /\ lfile'[idx].kind = "file"
    /\ resume_seek' = Some(SegSize(lfile'[idx].segs) - ResumeBackoff)
    /\ Len(ops') = Len(ops) + 3
    /\ SubSeq(ops', 1, Len(ops)) = ops
    /\ ops'[Len(ops) + 1].op \in {"get", "readv"}
    /\ ops'[Len(ops) + 2].op = "connect"
    /\ ops'[Len(ops) + 3].op = "chdir"
    /\ mpc' = "while"
    /\ idx' = idx

\* The step of the attempt that follows a reconnect.
AfterReconnect ==
    /\ mpc = "while"
    /\ ops # <<>>
    /\ ops[Len(ops)].op = "chdir"
    /\ Len(ops') > Len(ops)

\* The attempt is of the same file, reads the remote file from resume_seek
\* on and stores what it reads at resume_seek.
AttemptAtResumeOffset ==
    LET new == ops'[Len(ops) + 1]
        R == listing[idx].st_size
        chunks == readv(new.tuples, R)
    IN  /\ ~resume_seek.none
        /\ new.file = idx
        /\ mpc' # "raised"
        /\ IF new.op = "get"
           THEN resume_seek.v = 0
           ELSE /\ new.op = "readv"
                /\ new.tuples[1].off = resume_seek.v
                /\ \A k \in 1..Len(chunks) :
                      chunks[k].len > 0
                          => LandingOffsets(lfile[idx].segs, chunks)[k] = new.tuples[k].off

\* C23: after a fault in a run with resume the code computes the resume
\* offset as the bytes on disk less 10, opens a new session, restores the
\* working directory, and starts a new attempt for the same file that reads
\* from and writes at the resume offset; no remote read happens between the
\* fault and the end of the reconnect.
C23_FaultThenReconnectThenResume ==
    [][/\ FaultStep => HandlerOrder
       /\ AfterReconnect => AttemptAtResumeOffset]_vars

\* The part of C23 that the code keeps: the order of the handler.
C23_FaultThenReconnect ==
    [][FaultStep => HandlerOrder]_vars

\* Entry i, found absent or as a prefix of the remote file, was transferred
\* in this run by an attempt that completed after at least one attempt that
\* a fault interrupted.
CompletedAfterFault(i) ==
    /\ mpc # "idle"
    /\ lfile0[i] \in {Absent} \cup {Present(Prefix(S)) : S \in Sizes}
    /\ resume
    /\ i \in transferred
    /\ Len(OpsOf(i)) >= 2

\* C24: with resume, after faults and an attempt that completes, the local
\* file has the remote size and the remote bytes: the 10 bytes read again
\* overwrite what was there and are not appended a second time.
C24_IdenticalAfterFaults ==
    \A i \in 1..Len(listing) : CompletedAfterFault(i) => Identical(i)

\* The part of C24 that the code keeps: the completing attempt is a
\* client.get of the whole file.
C24_IdenticalAfterFaultsWhenGetAgain ==
    \A i \in 1..Len(listing) :
        (CompletedAfterFault(i) /\ OpsOf(i)[Len(OpsOf(i))].op = "get") => Identical(i)

\* A ranged transfer is about to start for the current entry.
RangedPending == mpc = "while" /\ Ranged(resume_seek, resume)

\* The resume offset lies in the local file and in the remote file.
OffsetInBounds ==
    /\ resume_seek.v >= 0
    /\ resume_seek.v <= SegSize(lfile[idx].segs)
    /\ resume_seek.v <= listing[idx].st_size

\* C25: every resume offset with which a ranged transfer is started is at
\* least 0, at most the bytes on disk and at most the remote size; a fault
\* with fewer than 10 bytes on disk leads to no negative seek or read offset.
\* (Stated for the entries whose local file was not found larger than the
\* remote file.)
C25_ResumeOffsetInBounds ==
    (RangedPending /\ SegSize(lfile0[idx].segs) <= listing[idx].st_size) => OffsetInBounds

\* The part of C25 that the code keeps: the offset is never beyond the bytes
\* on disk.
C25_ResumeOffsetWithinDisk ==
    RangedPending => resume_seek.v <= SegSize(lfile[idx].segs)

\* The part of C25 that the code keeps before any fault: the offset is the
\* size of dest, which is not negative.
C25_ResumeOffsetInBoundsBeforeFault ==
    (RangedPending /\ FirstAttempt) =>
        (resume_seek.v >= 0 /\ resume_seek.v <= SegSize(lfile[idx].segs))

NoOtherFailure == result.exc \notin {"TypeError", "IOError"}

\* mirror returned after the last entry, each transferred file having the
\* size of its remote file.
ReturnedComplete ==
    /\ mpc = "returned"
    /\ idx = Len(listing)
    /\ \A i \in transferred : SegSize(lfile[i].segs) = listing[i].st_size

\* C27: with resume, finitely many faults and reconnects that succeed, a
\* run of mirror eventually returns normally, having handled every entry,
\* each transferred file having its full remote size.
C27_EventuallyReturnsComplete ==
    ([]NoOtherFailure) => ((mpc = "for" /\ resume) ~> ReturnedComplete)

\* The part of C27 that the code keeps: a run without resume in which
\* nothing fails returns with every transferred file at its remote size.
C27_EventuallyEndsWithoutResume ==
    ([]NoOtherFailure) =>
        ((mpc = "for" /\ ~resume) ~> (ReturnedComplete \/ result.exc = "TransportFault"))

\* The run comes to an entry whose destination directory does not exist.
NeededCreation ==
    /\ mpc = "for"
    /\ idx' = idx + 1
    /\ listing[idx'].dir \notin ldirs

\* The run attempts to create the directory of the entry it comes to.
CreationAttempted == mkdirs' = Append(mkdirs, listing[idx'].dir)

\* clear_directory_cache is called on client c.
ClearStep(c) ==
    /\ mpc \in {"idle", "returned"}
    /\ mpc' = mpc
    /\ instance_dircache'[c] # instance_dircache[c]

\* The cache client c consults is empty, that of every other client is what
\* it was.
ClearEffect(c) ==
    /\ CacheOf(dircache', instance_dircache', c) = <<>>
    /\ \A d \in Clients \ {c} :
          CacheOf(dircache', instance_dircache', d) = CacheOf(dircache, instance_dircache, d)

\* C28: the directory cache a run consults belongs to that run alone: what
\* another client or an earlier run recorded never makes the run skip a
\* creation attempt it needs, and clear_directory_cache on a client empties
\* the cache its next run consults and changes no other client's cache.
\* (The creation attempts are stated for the first run of the process and
\* for the runs on another client than the one of the first run.)
C28_CacheBelongsToRun ==
    [][/\ (NeededCreation /\ (runs = 1 \/ self # 1)) => CreationAttempted
       /\ \A c \in Clients : ClearStep(c) => ClearEffect(c)]_vars

\* The part of C28 that the code keeps: the first run of the process, and
\* what clear_directory_cache does.
C28_CacheOfFirstRunAndClear ==
    [][/\ (NeededCreation /\ runs = 1) => CreationAttempted
       /\ \A c \in Clients : ClearStep(c) => ClearEffect(c)]_vars

\* ------------------------------------------ claims on the piece streamer
\* The generator has stopped or raised.
StreamDone == sgen.pc \in {"end", "raised"}

\* The buffers yielded so far.
Buffers == [k \in 1..Len(syield) |-> syield[k].val]

AllReadable == \A i \in 1..Len(sscen.sizes) : sscen.kinds[i] = "file"

TestFiles ==
    /\ sscen.sizes = <<FILE_SIZE, FILE_SIZE>>
    /\ sscen.piece_length = PIECE_LENGTH

\* C17 as stated: for two files of 2509 bytes and piece length 256 the
\* streamer yields 20 buffers, 19 of 256 bytes and a last one of 234 bytes.
C17_TestFilesTwentyPiecesLast234 ==
    (StreamDone /\ TestFiles) =>
        /\ Len(syield) = 20
        /\ \A k \in 1..19 : syield[k].kind = "piece" /\ Len(syield[k].val) = PIECE_LENGTH
        /\ syield[20].kind = "piece" /\ Len(syield[20].val) = 234

\* C17 with the last buffer of 5018 - 19 * 256 = 154 bytes: for two files of
\* 2509 bytes and piece length 256 the streamer yields 20 buffers, 19 of 256
\* bytes and a last one of 154 bytes.
C17_TestFilesTwentyPiecesLast154 ==
    (StreamDone /\ TestFiles) =>
        /\ Len(syield) = 20
        /\ \A k \in 1..19 : syield[k].kind = "piece" /\ Len(syield[k].val) = PIECE_LENGTH
        /\ syield[20].kind = "piece"
        /\ Len(syield[20].val) = 2 * FILE_SIZE - 19 * PIECE_LENGTH
        /\ Len(syield[20].val) = 154

C17_Witness ==
    /\ StreamDone /\ TestFiles
    /\ Len(syield) = 20 /\ Len(syield[10].val) = PIECE_LENGTH
    /\ syield[10].val[205] = FILE_SIZE /\ syield[10].val[206] = FILE_SIZE + 1

\* C18: for files that all exist, the buffers yielded make up the files'
\* bytes in listed order, every buffer but the last has piece_length bytes,
\* and the last has between 1 and piece_length bytes.
C18_PiecesAreTheConcatenation ==
    (StreamDone /\ AllReadable) =>
        /\ sgen.pc = "end"
        /\ \A k \in 1..Len(syield) : syield[k].kind = "piece"
        /\ Flatten(Buffers) = StreamData(sscen)
        /\ \A k \in 1..Len(syield) :
              /\ k < Len(syield) => Len(syield[k].val) = sscen.piece_length
              /\ Len(syield[k].val) \in 1..sscen.piece_length

\* A piece made of three files, the second one filling what an empty file
\* and a short file left open.
C18_Witness ==
    /\ StreamDone /\ AllReadable
    /\ sscen.sizes = <<1, 0, 2>> /\ sscen.piece_length = 3
    /\ Buffers = <<<<1, 2, 3>>>>

\* Some listed file cannot be sized or opened.
SomeUnreadable == ~AllReadable

\* C19: an unreadable file ends the stream with an error: no placeholder is
\* yielded, and the error is the last thing the consumer gets.
C19_UnreadableFileFailsAtOnce ==
    /\ \A k \in 1..Len(syield) :
          /\ syield[k].kind # "none"
          /\ syield[k].kind = "raise" => (k = Len(syield) /\ syield[k].val = "IOError")
    /\ (StreamDone /\ SomeUnreadable) =>
          (syield # <<>> /\ syield[Len(syield)].kind = "raise")

\* C20: at every step the buffer holds at most piece_length bytes, the bytes
\* held and the bytes wanted add up to piece_length, and the step after a
\* yield of line 81 starts from an empty buffer.
C20_BufferWithinOnePiece ==
    /\ Len(sgen.buf) <= sscen.piece_length
    /\ Len(sgen.buf) + sgen.p_delta = sscen.piece_length
    /\ sgen.pc = "resumed_piece" =>
          GenAdvance(StreamDisk(sscen), StreamNames(sscen), StreamBase,
                     sscen.piece_length, sgen).g.buf = <<>>

\* A full piece was just yielded from a file bigger than a piece.
C20_Witness ==
    /\ sgen.pc = "resumed_piece"
    /\ Len(sgen.buf) = sscen.piece_length /\ sgen.p_delta = 0
    /\ sscen.piece_length = 2 /\ sscen.sizes = <<1, 3>>

\* ------------------------------------ claims on the recursive listing
\* The places of the tree that hold something that is no directory, and the
\* directories that the server refuses to list.
NonDirectories == {q \in TreePaths : rtree[q].present /\ ~IsDirectory(rtree[q].st_mode)}

Unlistable ==
    {q \in TreePaths : /\ rtree[q].present
                       /\ IsDirectory(rtree[q].st_mode)
                       /\ ~rtree[q].listable}

\* The order of a depth-first walk: by the listing order of the first names
\* that differ.
Rank(nm) == CHOOSE k \in 1..Len(ListingOrder) : ListingOrder[k] = nm

RECURSIVE Before(_, _)
Before(q, r) ==
    IF q = <<>> THEN r # <<>>
    ELSE IF r = <<>> THEN FALSE
    ELSE IF Head(q) = Head(r) THEN Before(Tail(q), Tail(r))
    ELSE Rank(Head(q)) < Rank(Head(r))

YieldedPlaces == {Under(lyielded[k]) : k \in 1..Len(lyielded)}

\* Every yielded path is the start path joined with a place of the tree, and
\* the places come in depth-first order, none twice.
YieldedInOrder ==
    /\ \A k \in 1..Len(lyielded) : lyielded[k] = path_join(StartPath, Rel(Under(lyielded[k])))
    /\ \A j, k \in 1..Len(lyielded) : j < k => Before(Under(lyielded[j]), Under(lyielded[k]))

\* C29: a listing that ends has yielded every entry of the tree that is no
\* directory exactly once, under its path from the start path, no directory
\* entry, and the entries under a subdirectory before those that follow the
\* subdirectory in its parent's listing.
C29_YieldsEveryNonDirectoryOnce ==
    lpc = "done" => (YieldedPlaces = NonDirectories /\ YieldedInOrder)

\* The permission bits of every entry say what its type is: owner rwx on
\* the directories and on nothing else.
ModesAgree ==
    \A q \in TreePaths :
        rtree[q].present => (is_dir(rtree[q].st_mode) <=> IsDirectory(rtree[q].st_mode))

\* The part of C29 that the code keeps: the trees whose directories, and no
\* other entries, have all three owner permission bits.
C29_YieldsEveryNonDirectoryOnceWhenModesAgree ==
    (lpc = "done" /\ ModesAgree) => (YieldedPlaces = NonDirectories /\ YieldedInOrder)

\* The first directory that the server refuses to list, in the order of the
\* walk.
FirstUnlistable == CHOOSE q \in Unlistable : \A r \in Unlistable \ {q} : Before(q, r)

InterruptedHolding == sigat \in {"list", "sftp", "verify", "move", "label", "release"}

\* C16: when SIGINT arrives after main acquired the lock file, the lock file
\* is no longer held once the process has exited.
C16_InterruptReleasesLock ==
    (cpc = "exited" /\ InterruptedHolding) => ~lockheld

\* main ended, by itself and not by a signal, after it acquired the lock
\* file.
EndedAfterAcquire == cpc = "exited" /\ main_lock = "LockFile" /\ sigat = "none"

ReleasedOnce == releases = 1 /\ ~lockheld

\* C31: on every path on which main ends after it acquired the lock file
\* (the normal end, nothing to mirror, a connection failure, an SFTP failure,
\* an error while a torrent file is fetched, a torrent is moved or the labels
\* are set, every torrent having failed verification included) the lock is
\* released exactly once before the process exits. (An error of
\* list_torrents that is no connection failure, which the claim does not
\* name, is left aside.)
C31_EveryEndReleasesOnce ==
    (EndedAfterAcquire /\ ~(cnames = {} /\ ended.kind = "raise")) => ReleasedOnce

\* The part of C31 that the code keeps: the ends by sys.exit and the SFTP
\* failure that --debug raises again.
C31_HandledEndsReleaseOnce ==
    (EndedAfterAcquire /\ (ended.kind = "exit" \/ ended.exc = "Exception")) => ReleasedOnce

\* The move loop of line 199 has gone through all of names.
MovesDone == cpc \in {"label", "release", "exit"}

\* C32: a torrent whose content failed verification is never given to
\* move_torrent and is never among the hashes that get the label; every
\* torrent that passed verification gets a move request.
C32_FailedNeverMovedNorLabelled ==
    /\ cbad \cap move_requests = {}
    /\ cbad \cap moved = {}
    /\ cbad \cap labelled = {}
    /\ MovesDone => (cnames \ cbad) \subseteq move_requests

\* The labels were set after one torrent failed verification and another
\* passed and was moved.
C32_Witness ==
    /\ cpc = "release"
    /\ cbad # {}
    /\ moved # {}
    /\ labelled # {}

\* ------------------------------------- claims on set_label_to_hashes
\* The call is over: it returned or it raised.
LabelCallOver == tpc \in {"returned", "raised"}

\* C33: a call with hashes that are not empty and the empty string as label
\* posts the setlabel request and raises no error.
C33_EmptyLabelIsPosted ==
    (kwargs.hashes # {} /\ kwargs.label = <<>> /\ LabelCallOver)
        => (label_requests # <<>> /\ tpc = "returned")

\* A step that posts a request after the first one of the call.
RetryPosted ==
    /\ Len(label_requests) >= 1
    /\ Len(label_requests') = Len(label_requests) + 1

\* The retry goes to hashes of the request before it that list_torrents()
\* has just shown with an empty label (empty as line 406 tests it: nothing
\* is left of it after strip()), and there is at least one of them.
RetryOnlyForUnlabelled ==
    LET req == label_requests'[Len(label_requests')]
        prev == label_requests[Len(label_requests)]
    IN /\ req.hashes # {}
       /\ req.hashes \subseteq prev.hashes
       /\ \A h \in req.hashes : h \in DOMAIN listed /\ strip(listed[h]) = <<>>

\* C34: whatever the server answers, a call of set_label_to_hashes comes to
\* its end, having posted at most recursion_limit + 1 setlabel requests;
\* each retry is posted only for hashes of the request before it that still
\* have an empty label, and never for no hash at all.
C34_TerminatesWithinLimit ==
    /\ [](Len(label_requests) <= kwargs.recursion_limit + 1)
    /\ [][RetryPosted => RetryOnlyForUnlabelled]_vars
    /\ (tpc # "idle") ~> LabelCallOver

\* A call with the highest limit has posted limit + 1 requests, the last one
\* for fewer hashes than the first one, and returned.
C34_Witness ==
    /\ tpc = "returned"
    /\ kwargs.recursion_limit = MaxLimit
    /\ Len(label_requests) = MaxLimit + 1
    /\ label_requests[Len(label_requests)].hashes # label_requests[1].hashes

====
